---- MODULE Spec2Model ----
(***************************************************************************)
(* wp_repository: the AttributeMapping / AttributeMap metadata, the SQL    *)
(* statement builders of RepositoryElement, SQLStatement, and the          *)
(* connection life cycle and data operations of SQLiteRepository.          *)
(*                                                                         *)
(* Statement text is a sequence of text pieces whose concatenation is the  *)
(* Python string: every column name and every "?" placeholder is a piece   *)
(* of its own.  A Python value is a record [kind, items]: a scalar holds   *)
(* one item, a list or a tuple holds its elements.                         *)
(*                                                                         *)
(* wp_queueing: QueueMessage with its payload setter and its JSON form,    *)
(* and the topics setter of MQTTConsumer.                                  *)
(***************************************************************************)
EXTENDS Integers, Sequences, FiniteSets, TLC

VARIABLES
    attribute_map,    \* RepositoryElement._attribute_map of the contents type
    entity,           \* attribute values of the element handed to the last operation, as the operation left them
    entity_in,        \* attribute values of that element when it was handed over
    where_criteria,   \* the criteria list handed to select_where(_statement)
    sql_stmt,         \* the SQLStatement the last builder call returned
    last_op,          \* name of the last operation called
    last_err,         \* exception the last operation raised ("none": it returned)
    sql_file_path,    \* SQLiteRepository._sql_file_path
    sql_connection,   \* SQLiteRepository._sql_connection (NoConn: None)
    can_close,        \* SQLiteRepository._can_close
    conn_state,       \* sqlite3 connections: "unused", "open" or "closed"
    conn_pragma,      \* per connection: number of PRAGMA foreign_keys=ON executions
    closed_by_repo,   \* connections on which the repository called close()
    op_closed,        \* connection the last operation called close() on (NoConn: none)
    op_executed,      \* number of cursor.execute calls of the last operation
    op_commits,       \* number of connection.commit calls of the last operation
    op_cursors_open,  \* cursors the last operation opened and did not close
    db_rows,          \* rows of the table as the repository's session sees them
    db_committed,     \* rows of the table as last committed
    with_pc,          \* position relative to a "with" block: "out" or "in"
    with_conn,        \* the connection __enter__ opened for the running "with" block
    with_outcome,     \* how __exit__ just left the block: "normal", "raised", "suppressed" ("none": last_op is not __exit__)
    op_result,        \* value the last operation returned
    close_again,      \* the last operation is a close() called right after a close()
    op_do_commit,     \* do_commit of the last operation (TRUE, the default, if it has none)
    op_calls,         \* calls the last data operation made on its connection and cursor, in order
    op_path,          \* the path the last operation, an open(), was called with (NoPath: None)
    payload_in,       \* the payload value a message session works with
    payload_arg,      \* the value last assigned to msg_1.msg_payload
    msg_1,            \* a QueueMessage that is filled and serialized
    msg_2,            \* a QueueMessage that receives msg_1's MQTT message
    temp_mqtt,        \* what msg_1.mqtt_message last returned (<<>>: nothing yet)
    consumer,         \* an MQTTConsumer and the subscriptions of its MQTT client
    topics_arg        \* the value last assigned to consumer.topics

queue_vars == <<payload_in, payload_arg, msg_1, msg_2, temp_mqtt, consumer, topics_arg>>
stmt_vars == <<attribute_map, entity, entity_in, where_criteria, sql_stmt>>
repo_vars == <<sql_file_path, sql_connection, can_close, conn_state, conn_pragma,
               closed_by_repo, op_closed, op_executed, op_commits, op_cursors_open,
               db_rows, db_committed, with_pc, with_conn, with_outcome, op_result, close_again,
               op_do_commit, op_calls, op_path>>
vars == <<attribute_map, entity, entity_in, where_criteria, sql_stmt, last_op, last_err,
          sql_file_path, sql_connection, can_close, conn_state, conn_pragma,
          closed_by_repo, op_closed, op_executed, op_commits, op_cursors_open,
          db_rows, db_committed, with_pc, with_conn, with_outcome, op_result, close_again,
               op_do_commit, op_calls, op_path,
          payload_in, payload_arg, msg_1, msg_2, temp_mqtt, consumer, topics_arg>>

----------------------------------------------------------------------------
(* Bounds *)

\* select_rank values range over -1..MaxRank (a rank below 0: excluded from SELECT)
MaxRank == 1
\* scalar values range over 1..MaxVal
MaxVal == 2
\* list and tuple criteria values hold up to MaxSeqLen elements
MaxSeqLen == 2
\* connections the process may create in one run
MaxConns == 2
\* row ids an auto-increment table hands out range over 1..MaxRowId
MaxRowId == 2

----------------------------------------------------------------------------
(* Python values *)

None == [kind |-> "none", items |-> <<>>]
Scalar(v) == [kind |-> "scalar", items |-> <<v>>]
PyList(s) == [kind |-> "list", items |-> s]
PyTuple(s) == [kind |-> "tuple", items |-> s]

\* isinstance(v, list)
IsList(v) == v.kind = "list"

\* len(v); TypeError for a value without a length
HasLen(v) == v.kind \in {"list", "tuple"}
PyLen(v) == Len(v.items)

----------------------------------------------------------------------------
(* AttributeMapping *)

AttributeMapping(select_rank, cls_attr_name, db_attr_name, db_key, include_in_insert_flag, include_in_update_flag) ==
    [select_rank |-> select_rank, class_attr_name |-> cls_attr_name,
     db_attr_name |-> db_attr_name, db_key |-> db_key,
     inc_insert |-> include_in_insert_flag, inc_update |-> include_in_update_flag]

is_db_key(m) == m.db_key # 0

is_autoincrement_key(m) == m.db_key = 2

\* mutant: the declared flag alone decides
include_in_insert_FlagOnly(m) == m.inc_insert

include_in_insert(m) == m.inc_insert /\ ~is_autoincrement_key(m)

\* mutant: primary-key columns are not excluded
include_in_update_KeepsKeys(m) == m.inc_update /\ ~is_autoincrement_key(m)

include_in_update(m) == m.inc_update /\ ~is_autoincrement_key(m) /\ ~is_db_key(m)

\* mutant: rank 0 is not selected
include_in_select_Positive(m) == m.select_rank > 0

include_in_select(m) == m.select_rank >= 0

by_rank(m) == m.select_rank

----------------------------------------------------------------------------
(* AttributeMap *)

\* list.sort(key = by_rank): a stable sort, here by insertion from the left
RECURSIVE InsertByRank(_, _)
InsertByRank(sorted, m) ==
    IF sorted = <<>> THEN <<m>>
    ELSE IF by_rank(sorted[Len(sorted)]) <= by_rank(m) THEN Append(sorted, m)
    ELSE Append(InsertByRank(SubSeq(sorted, 1, Len(sorted) - 1), m), sorted[Len(sorted)])

\* an AttributeMap that keeps the mappings in their declaration order
SortByRank_Unsorted(ms) == ms

RECURSIVE SortByRank(_)
SortByRank(ms) ==
    IF ms = <<>> THEN <<>>
    ELSE InsertByRank(SortByRank(SubSeq(ms, 1, Len(ms) - 1)), ms[Len(ms)])

\* the loop of __init__: the last auto-increment mapping of the sorted list wins
RECURSIVE LastAutoIncrement(_)
LastAutoIncrement(ms) ==
    IF ms = <<>> THEN None
    ELSE IF is_autoincrement_key(ms[Len(ms)]) THEN ms[Len(ms)]
    ELSE LastAutoIncrement(SubSeq(ms, 1, Len(ms) - 1))

AttributeMap(table_name, attribute_mappings) ==
    [table_name |-> table_name,
     mappings |-> SortByRank(attribute_mappings),
     auto_increment_attr |-> LastAutoIncrement(SortByRank(attribute_mappings))]

has_auto_increment_key(amap) == amap.auto_increment_attr # None

\* getattr(mapping, bool_attr_name) for the properties _select_mappings is called with
mapping_property(m, bool_attr_name) ==
    CASE bool_attr_name = "include_in_select" -> include_in_select(m)
      [] bool_attr_name = "include_in_insert" -> include_in_insert(m)
      [] bool_attr_name = "include_in_update" -> include_in_update(m)
      [] bool_attr_name = "is_db_key" -> is_db_key(m)

_select_mappings(amap, bool_attr_name) ==
    LET selected(m) == mapping_property(m, bool_attr_name)
    IN SelectSeq(amap.mappings, selected)

attributes_for_select(amap) == _select_mappings(amap, "include_in_select")

attributes_for_insert(amap) == _select_mappings(amap, "include_in_insert")

attributes_for_update(amap) == _select_mappings(amap, "include_in_update")

db_key_attributes(amap) == _select_mappings(amap, "is_db_key")

\* AttributeMap.__getitem__: the first mapping of that class attribute name, or None
RECURSIVE FirstNamed(_, _)
FirstNamed(ms, key_value) ==
    IF ms = <<>> THEN None
    ELSE IF ms[1].class_attr_name = key_value THEN ms[1]
    ELSE FirstNamed(Tail(ms), key_value)

getitem(amap, key_value) == FirstNamed(amap.mappings, key_value)

----------------------------------------------------------------------------
(* SQLStatement *)

SQLStatement == [stmt_text |-> <<>>, stmt_params |-> <<>>]

append_text(stmt, text) == [stmt EXCEPT !.stmt_text = @ \o text]

\* list.extend(stmt_param) for a list, list.append(stmt_param) for anything else
ListElems(v) == [i \in 1..Len(v.items) |-> Scalar(v.items[i])]

append_param(stmt, stmt_param) ==
    IF IsList(stmt_param)
    THEN [stmt EXCEPT !.stmt_params = @ \o ListElems(stmt_param)]
    ELSE [stmt EXCEPT !.stmt_params = Append(@, stmt_param)]

\* getattr(self, name)
getattr(elem, name) == elem[name]

----------------------------------------------------------------------------
(* RepositoryElement: statement builders *)

\* the loop of insert_statement over attributes_for_insert, from mapping att_no + 1 on:
\* acc = [stmt, value_list]
RECURSIVE InsertLoop(_, _, _, _)
InsertLoop(elem, ms, att_no, acc) ==
    IF att_no >= Len(ms) THEN acc
    ELSE LET mapping == ms[att_no + 1]
             withText == IF att_no = 0
                         THEN [stmt |-> append_text(acc.stmt, <<mapping.db_attr_name>>),
                               value_list |-> acc.value_list \o <<"?">>]
                         ELSE [stmt |-> append_text(acc.stmt, <<", ", mapping.db_attr_name>>),
                               value_list |-> acc.value_list \o <<", ", "?">>]
         IN InsertLoop(elem, ms, att_no + 1,
                [withText EXCEPT !.stmt =
                    append_param(@, getattr(elem, mapping.class_attr_name))])

insert_statement(amap, elem) ==
    LET ins_stmt == [SQLStatement EXCEPT !.stmt_text = <<"INSERT INTO ", amap.table_name, " (">>]
        done == InsertLoop(elem, attributes_for_insert(amap), 0,
                           [stmt |-> ins_stmt, value_list |-> <<" VALUES( ">>])
    IN append_text(done.stmt, <<" ) ">> \o done.value_list \o <<" )">>)

\* the loop of _key_where_clause over db_key_attributes
RECURSIVE KeyWhereLoop(_, _, _, _)
KeyWhereLoop(elem, ms, att_no, stmt) ==
    IF att_no >= Len(ms) THEN stmt
    ELSE LET mapping == ms[att_no + 1]
             withText == IF att_no = 0
                         THEN append_text(stmt, <<" ", mapping.db_attr_name, " = ", "?", " ">>)
                         ELSE append_text(stmt, <<" AND ", mapping.db_attr_name, " = ", "?", " ">>)
         IN KeyWhereLoop(elem, ms, att_no + 1,
                append_param(withText, getattr(elem, mapping.class_attr_name)))

\* a WHERE clause over every selected column instead of the key columns
_key_where_clause_AllSelected(amap, elem, sql) ==
    KeyWhereLoop(elem, attributes_for_select(amap), 0, append_text(sql, <<" WHERE ">>))

_key_where_clause(amap, elem, sql) ==
    KeyWhereLoop(elem, db_key_attributes(amap), 0, append_text(sql, <<" WHERE ">>))

\* the loop of update_statement over attributes_for_update
RECURSIVE UpdateLoop(_, _, _, _)
UpdateLoop(elem, ms, att_no, stmt) ==
    IF att_no >= Len(ms) THEN stmt
    ELSE LET mapping == ms[att_no + 1]
             withText == IF att_no = 0
                         THEN append_text(stmt, <<" ", mapping.db_attr_name, " = ", "?">>)
                         ELSE append_text(stmt, <<", ", mapping.db_attr_name, " = ", "?">>)
         IN UpdateLoop(elem, ms, att_no + 1,
                append_param(withText, getattr(elem, mapping.class_attr_name)))

update_statement(amap, elem) ==
    LET upd_stmt == [SQLStatement EXCEPT !.stmt_text = <<"UPDATE ", amap.table_name, " SET ">>]
    IN _key_where_clause(amap, elem,
           UpdateLoop(elem, attributes_for_update(amap), 0, upd_stmt))

delete_statement(amap, elem) ==
    LET del_stmt == [SQLStatement EXCEPT !.stmt_text = <<"DELETE FROM ", amap.table_name, " ">>]
    IN _key_where_clause(amap, elem, del_stmt)

\* the loop of _select_clause over attributes_for_select
RECURSIVE SelectLoop(_, _, _)
SelectLoop(ms, att_no, stmt) ==
    IF att_no >= Len(ms) THEN stmt
    ELSE LET mapping == ms[att_no + 1]
         IN SelectLoop(ms, att_no + 1,
                IF att_no = 0
                THEN append_text(stmt, <<" ", mapping.db_attr_name>>)
                ELSE append_text(stmt, <<", ", mapping.db_attr_name>>))

_select_clause(amap, sql) ==
    append_text(SelectLoop(attributes_for_select(amap), 0,
                           [sql EXCEPT !.stmt_text = <<"SELECT ">>]),
                <<" FROM ", amap.table_name, " ">>)

\* the loop of _key_order_clause over db_key_attributes
RECURSIVE KeyOrderLoop(_, _, _)
KeyOrderLoop(ms, att_no, stmt) ==
    IF att_no >= Len(ms) THEN stmt
    ELSE LET mapping == ms[att_no + 1]
         IN KeyOrderLoop(ms, att_no + 1,
                IF att_no = 0
                THEN append_text(stmt, <<mapping.db_attr_name>>)
                ELSE append_text(stmt, <<", ", mapping.db_attr_name>>))

_key_order_clause(amap, sql) ==
    KeyOrderLoop(db_key_attributes(amap), 0, append_text(sql, <<" ORDER BY ">>))

select_by_key_statement(amap, elem) ==
    _key_where_clause(amap, elem, _select_clause(amap, SQLStatement))

select_all_statement(amap) ==
    _key_order_clause(amap, _select_clause(amap, SQLStatement))

\* str.upper() on the operator strings the model draws from
Upper(op) ==
    CASE op \in {"like", "Like"} -> "LIKE"
      [] op \in {"between", "Between"} -> "BETWEEN"
      [] op \in {"in", "In"} -> "IN"
      [] OTHER -> op

\* the list literal of _where_clause_term
AcceptedOperators == {"=", "!=", ">", "<", "=>", "<=", "LIKE", "BETWEEN", "IN"}

\* ','.join(['?'] * n)
RECURSIVE JoinPlaceholders(_)
JoinPlaceholders(n) ==
    IF n <= 0 THEN <<>>
    ELSE IF n = 1 THEN <<"?">>
    ELSE JoinPlaceholders(n - 1) \o <<",", "?">>

\* where_term = [att, op, val]; the result is [err, stmt], err naming the exception raised
_where_clause_term(amap, sql, where_term) ==
    LET cond_att == where_term.att
        cond_op == where_term.op
        cond_val == where_term.val
        mapping == getitem(amap, cond_att)
        head == append_text(sql, <<" ", mapping.db_attr_name, " ", cond_op, " ">>)
    IN IF mapping = None
       THEN [err |-> "InvalidAttribute", stmt |-> sql]
       ELSE IF Upper(cond_op) \notin AcceptedOperators
       THEN [err |-> "InvalidOperator", stmt |-> sql]
       ELSE IF Upper(cond_op) = "BETWEEN"
       THEN [err |-> "none",
             stmt |-> append_param(append_text(head, <<"?", " AND ", "?", " ">>), cond_val)]
       ELSE IF Upper(cond_op) = "IN"
       THEN IF ~HasLen(cond_val)
            THEN [err |-> "TypeError", stmt |-> head]
            ELSE [err |-> "none",
                  stmt |-> append_param(
                      append_text(head, <<"( ">> \o JoinPlaceholders(PyLen(cond_val)) \o <<" )">>),
                      cond_val)]
       ELSE [err |-> "none", stmt |-> append_param(append_text(head, <<" ", "?", " ">>), cond_val)]

\* the loop of select_where_statement over where_criteria; the first exception ends it
RECURSIVE WhereLoop(_, _, _, _)
WhereLoop(amap, criteria, att_no, stmt) ==
    IF att_no >= Len(criteria) THEN [err |-> "none", stmt |-> stmt]
    ELSE LET joined == IF att_no = 0
                       THEN append_text(stmt, <<" WHERE ">>)
                       ELSE append_text(stmt, <<" AND ">>)
             term == _where_clause_term(amap, joined, criteria[att_no + 1])
         IN IF term.err # "none" THEN term
            ELSE WhereLoop(amap, criteria, att_no + 1, term.stmt)

select_where_statement(amap, criteria) ==
    LET built == WhereLoop(amap, criteria, 0, _select_clause(amap, SQLStatement))
    IN IF built.err # "none" THEN built
       ELSE [err |-> "none", stmt |-> _key_order_clause(amap, built.stmt)]

----------------------------------------------------------------------------
(* Inputs *)

Ranks == -1..MaxRank
Values == 1..MaxVal

\* class attribute names and their table columns
Attrs == <<"a", "b", "c">>
Columns == <<"col_a", "col_b", "col_c">>
AttrSet == {Attrs[i] : i \in 1..Len(Attrs)}
ColumnSet == {Columns[i] : i \in 1..Len(Columns)}
TableName == "test_table"
\* a name no mapping declares
UnknownAttr == "zz"

\* every declaration of mapping i: any rank, key role and flags
MappingsOf(i) ==
    {AttributeMapping(r, Attrs[i], Columns[i], k, ins, upd) :
        r \in Ranks, k \in 0..2, ins \in BOOLEAN, upd \in BOOLEAN}

\* the declarations of mapping i that leave the two flags at their default, True
DefaultMappingsOf(i) ==
    {AttributeMapping(r, Attrs[i], Columns[i], k, TRUE, TRUE) : r \in Ranks, k \in 0..2}

\* the mapping lists a RepositoryElement subclass may declare, in declaration order:
\* the third mapping keeps the default flags
DeclaredMappings ==
    {<<m1, m2, m3>> :
        m1 \in MappingsOf(1), m2 \in MappingsOf(2), m3 \in DefaultMappingsOf(3)}

\* the elements the builders are applied to: three distinct scalars each
StmtElements ==
    {[a \in AttrSet |-> Scalar(IF a = "a" THEN v
                               ELSE IF a = "b" THEN v + MaxVal ELSE v + 2 * MaxVal)] :
        v \in Values}

\* elements: every attribute holds a scalar
Entities == {[a \in AttrSet |-> Scalar(IF a = "a" THEN va ELSE IF a = "b" THEN vb ELSE vc)] :
                va \in Values, vb \in Values, vc \in Values}

----------------------------------------------------------------------------
(* SQLiteRepository *)

NoConn == 0
ExtConn == 1
NoPath == "<None>"
DbPath == "test_db.sl3"
Conns == 1..(MaxConns + 1)

----------------------------------------------------------------------------
(* Queue messages: Python values, their JSON text, QueueMessage, MQTTConsumer *)

MaxPairs == 2       \* entries of a payload dictionary
MaxTopics == 2      \* entries of a topic list

\* the Python values that occur as keys and values of payload dictionaries
IntValue(n) == [kind |-> "int", n |-> n, s |-> "", items |-> <<>>]
StrValue(s) == [kind |-> "str", n |-> 0, s |-> s, items |-> <<>>]
TupleValue(items) == [kind |-> "tuple", n |-> 0, s |-> "", items |-> items]
ListValue(items) == [kind |-> "list", n |-> 0, s |-> "", items |-> items]
SetValue(items) == [kind |-> "set", n |-> 0, s |-> "", items |-> items]

PyKeys == {IntValue(1), StrValue("1"), StrValue("a")}
PyValues == {IntValue(1), StrValue("x"), TupleValue(<<1>>), ListValue(<<1>>), SetValue(<<1>>)}

\* dictionaries in insertion order; the keys of a dictionary are distinct
PyDicts ==
    {d \in UNION {[1..n -> [key : PyKeys, val : PyValues]] : n \in 0..MaxPairs} :
        \A i, j \in DOMAIN d : i # j => d[i].key # d[j].key}

DictItems(d) == {d[i] : i \in DOMAIN d}

\* what a QueueMessage holds as payload: a dictionary, or a class object
DictPayload(d) == [kind |-> "dict", pairs |-> d]
ClassPayload == [kind |-> "class", pairs |-> <<>>]

\* two payloads compare equal (==): dictionaries compare by their items
PayloadEq(p, q) == p.kind = q.kind /\ DictItems(p.pairs) = DictItems(q.pairs)

\* values a caller assigns to msg_payload: a dict, an object implementing
\* IConvertToDict (pairs is what its to_dict() returns), a class object, or
\* anything else (a str)
TMessageOK == [kind |-> "IConvertToDict", pairs |-> <<[key |-> StrValue("a"), val |-> StrValue("x")]>>]
TMessageFail == [kind |-> "object", pairs |-> <<>>]
ClassObject == [kind |-> "class", pairs |-> <<>>]
PayloadArguments ==
    [kind : {"dict", "IConvertToDict"}, pairs : PyDicts] \cup {TMessageFail, ClassObject}

\* JSON text, held as the value it denotes
JsonNumber(n) == [type |-> "number", n |-> n, s |-> "", items |-> <<>>]
JsonString(s) == [type |-> "string", n |-> 0, s |-> s, items |-> <<>>]
JsonArray(items) == [type |-> "array", n |-> 0, s |-> "", items |-> items]

\* json.dumps: int and str as number and string, tuple and list both as array; a
\* set is not serializable; a key that is an int is written as its decimal string
Serializable(v) == v.kind \in {"int", "str", "tuple", "list"}

json_dumps_value(v) ==
    CASE v.kind = "int" -> JsonNumber(v.n)
      [] v.kind = "str" -> JsonString(v.s)
      [] OTHER -> JsonArray(v.items)

json_dumps_key(k) == IF k.kind = "int" THEN ToString(k.n) ELSE k.s

\* json.loads: number, string and array come back as int, str and list
json_loads_value(j) ==
    CASE j.type = "number" -> IntValue(j.n)
      [] j.type = "string" -> StrValue(j.s)
      [] OTHER -> ListValue(j.items)

\* json.loads of an object: one entry per name at the place of its first
\* occurrence, with the value of its last occurrence
NameIsFirst(members, i) == \A j \in 1..(i - 1) : members[j].key # members[i].key
LastOfName(members, name) ==
    CHOOSE i \in DOMAIN members :
        members[i].key = name /\ \A j \in (i + 1)..Len(members) : members[j].key # name
json_loads_object(members) ==
    LET firsts == SelectSeq([i \in DOMAIN members |-> i], LAMBDA i : NameIsFirst(members, i))
    IN  [n \in DOMAIN firsts |->
            [key |-> StrValue(members[firsts[n]].key),
             val |-> json_loads_value(members[LastOfName(members, members[firsts[n]].key)].val)]]

NoTopic == "<None>"

\* QueueMessage.__init__: a new id and timestamp, the given topic, an empty payload
QueueMessage(msg_id, msg_dt, msg_topic) ==
    [_msg_id |-> msg_id, _msg_dt |-> msg_dt, _msg_topic |-> msg_topic, _payload |-> DictPayload(<<>>)]

\* isinstance(payload, type(dict)): type(dict) is type, so this holds of class
\* objects and of nothing else
IsInstanceOfTypeOfDict(payload) == payload.kind = "class"

\* the msg_payload setter
msg_payload_setter(msg, payload) ==
    IF IsInstanceOfTypeOfDict(payload)
    THEN [err |-> "none", msg |-> [msg EXCEPT !._payload = ClassPayload]]
    ELSE IF payload.kind = "IConvertToDict"
    THEN [err |-> "none", msg |-> [msg EXCEPT !._payload = DictPayload(payload.pairs)]]
    ELSE [err |-> "QueueingException", msg |-> msg]

\* json_serialize_payload: json.dumps of {'msg_id', 'msg_dt', 'payload'}
json_serialize_payload(msg) ==
    IF \/ msg._payload.kind # "dict"
       \/ \E i \in DOMAIN msg._payload.pairs : ~Serializable(msg._payload.pairs[i].val)
    THEN [err |-> "TypeError", text |-> <<>>]
    ELSE [err |-> "none",
          text |-> <<[msg_id |-> JsonString(msg._msg_id),
                      msg_dt |-> JsonString(msg._msg_dt),
                      payload |-> [i \in DOMAIN msg._payload.pairs |->
                                      [key |-> json_dumps_key(msg._payload.pairs[i].key),
                                       val |-> json_dumps_value(msg._payload.pairs[i].val)]]]>>]

\* a deserialization that keeps the receiving message's own id
json_deserialize_payload_KeepsId(msg, json_str) ==
    [msg EXCEPT !._msg_dt = json_str.msg_dt.s,
                !._payload = DictPayload(json_loads_object(json_str.payload))]

\* json_deserialize_payload: json.loads, then id, timestamp and payload are taken
json_deserialize_payload(msg, json_str) ==
    [msg EXCEPT !._msg_id = json_str.msg_id.s,
                !._msg_dt = json_str.msg_dt.s,
                !._payload = DictPayload(json_loads_object(json_str.payload))]

\* the mqtt_message setter: the topic, then the deserialized payload
mqtt_message_setter(msg, topic, payload) ==
    json_deserialize_payload([msg EXCEPT !._msg_topic = topic], payload)

\* topic lists: None, or a non-empty list whose entries are topic strings or
\* (topic, qos) tuples
TopicString(topic) == [kind |-> "str", topic |-> topic, qos |-> 0]
TopicTuple(topic, qos) == [kind |-> "tuple", topic |-> topic, qos |-> qos]
TopicEntries == {TopicString("a"), TopicString("b"), TopicTuple("a", 1)}
NoneList == [is_none |-> TRUE, items |-> <<>>]
ListOf(items) == [is_none |-> FALSE, items |-> items]
TopicLists ==
    {NoneList} \cup {ListOf(items) : items \in UNION {[1..n -> TopicEntries] : n \in 1..MaxTopics}}

\* MQTTConsumer.__init__: not subscribed, no topics; the MQTT client gets the
\* on_message callback and no on_subscribe callback
MQTTConsumer ==
    [_is_subscribed |-> FALSE,
     _subscribed_topics |-> NoneList,
     on_subscribe |-> "None",
     subscriptions |-> {}]

\* an entry of _subscribed_topics: a tuple as it is, a string with qos 0
SubscribedEntry(topic) == TopicTuple(topic.topic, IF topic.kind = "tuple" THEN topic.qos ELSE 0)

\* mqtt_client.subscribe: the broker keeps one subscription per topic
subscribe(subscriptions, topics) ==
    {s \in subscriptions : \A i \in DOMAIN topics : topics[i].topic # s.topic}
        \cup {topics[i] : i \in DOMAIN topics}

\* subscribe_ack
subscribe_ack(self) == [self EXCEPT !._is_subscribed = TRUE]

\* receive: mqtt_client.loop hands a SUBACK to the client's on_subscribe callback
receive(self) ==
    IF self.on_subscribe = "mqtt_on_subscribe" THEN subscribe_ack(self) ELSE self

\* the topics setter
topics_setter(self, topic_list) ==
    IF topic_list.is_none THEN [err |-> "none", consumer |-> self]
    ELSE IF self._is_subscribed THEN [err |-> "RuntimeError", consumer |-> self]
    ELSE LET topics == [i \in DOMAIN topic_list.items |-> SubscribedEntry(topic_list.items[i])]
         IN  [err |-> "none",
              consumer |-> receive([self EXCEPT
                                       !._subscribed_topics = ListOf(topics),
                                       !.subscriptions = subscribe(self.subscriptions, topics)])]

\* no queue object is in use
NoArgument == [kind |-> "none", pairs |-> <<>>]
QueueIdle ==
    /\ payload_in = NoArgument
    /\ payload_arg = NoArgument
    /\ msg_1 = QueueMessage("id1", "dt1", NoTopic)
    /\ msg_2 = QueueMessage("id2", "dt1", NoTopic)
    /\ temp_mqtt = <<>>
    /\ consumer = MQTTConsumer
    /\ topics_arg = NoneList

\* a repository that was constructed without path and connection and never used
RepoIdle ==
    /\ sql_file_path = NoPath
    /\ sql_connection = NoConn
    /\ can_close = TRUE
    /\ conn_state = [c \in Conns |-> "unused"]
    /\ conn_pragma = [c \in Conns |-> 0]
    /\ closed_by_repo = {}
    /\ op_closed = NoConn
    /\ op_executed = 0
    /\ op_commits = 0
    /\ op_cursors_open = 0
    /\ db_rows = {}
    /\ db_committed = {}
    /\ with_pc = "out"
    /\ with_conn = NoConn
    /\ with_outcome = "none"
    /\ op_result = None
    /\ close_again = FALSE
    /\ op_do_commit = TRUE
    /\ op_calls = <<>>
    /\ op_path = NoPath

----------------------------------------------------------------------------
(* Reading a statement text *)

Range(f) == {f[i] : i \in DOMAIN f}
IsColumn(piece) == piece \in ColumnSet
IsPlaceholder(piece) == piece = "?"
ColumnsIn(text) == SelectSeq(text, IsColumn)
CountPlaceholders(text) == Len(SelectSeq(text, IsPlaceholder))
HasPiece(text, piece) == \E i \in 1..Len(text) : text[i] = piece
PositionOf(text, piece) == CHOOSE i \in 1..Len(text) : text[i] = piece
BeforeWhere(text) == SubSeq(text, 1, PositionOf(text, " WHERE ") - 1)
AfterWhere(text) == SubSeq(text, PositionOf(text, " WHERE ") + 1, Len(text))

----------------------------------------------------------------------------
(* The sqlite3 session: what cursor.execute does with a built statement.       *)
(* A row maps every column of the table to an integer, Null for no value.  The  *)
(* table's primary key is the key columns of the attribute map.                 *)

Null == 0

\* sqlite3 binds one scalar per placeholder
BindError(stmt) ==
    IF CountPlaceholders(stmt.stmt_text) # Len(stmt.stmt_params) THEN "ProgrammingError"
    ELSE IF \E i \in 1..Len(stmt.stmt_params) : stmt.stmt_params[i].kind \in {"list", "tuple"}
    THEN "InterfaceError"
    ELSE "none"

Bound(param) == IF param.kind = "scalar" THEN param.items[1] ELSE Null

KeyColumns(amap) == {m.db_attr_name : m \in Range(db_key_attributes(amap))}
AutoColumns(amap) == {m.db_attr_name : m \in {k \in Range(amap.mappings) : is_autoincrement_key(k)}}

\* the rowid SQLite gives the next row of an AUTOINCREMENT table
NextRowId(rows, col) ==
    IF rows = {} THEN 1
    ELSE 1 + (CHOOSE n \in {r[col] : r \in rows} : \A r \in rows : r[col] <= n)

\* row.col = value for every column of cols, values taken from params in order
Matches(row, cols, params) == \A i \in 1..Len(cols) : row[cols[i]] = Bound(params[i])

\* INSERT INTO t ( cols ) VALUES( ?, ... )
ExecInsert(amap, stmt, rows) ==
    LET cols == ColumnsIn(stmt.stmt_text)
        given(c) == Bound(stmt.stmt_params[CHOOSE i \in 1..Len(cols) : cols[i] = c])
        row == [c \in ColumnSet |->
                  IF c \in Range(cols) THEN given(c)
                  ELSE IF c \in AutoColumns(amap) THEN NextRowId(rows, c)
                  ELSE Null]
    IN IF BindError(stmt) # "none" THEN [err |-> BindError(stmt), rows |-> rows, rowcount |-> 0, lastrowid |-> 0]
       ELSE IF cols = <<>> THEN [err |-> "OperationalError", rows |-> rows, rowcount |-> 0, lastrowid |-> 0]
       ELSE IF /\ KeyColumns(amap) # {}
               /\ \E r \in rows : \A c \in KeyColumns(amap) : r[c] = row[c]
       THEN [err |-> "IntegrityError", rows |-> rows, rowcount |-> 0, lastrowid |-> 0]
       ELSE [err |-> "none", rows |-> rows \cup {row}, rowcount |-> 1,
             lastrowid |-> IF AutoColumns(amap) = {} THEN Cardinality(rows) + 1
                           ELSE row[CHOOSE c \in AutoColumns(amap) : TRUE]]

\* UPDATE t SET col = ?, ... WHERE key = ? AND ...
ExecUpdate(stmt, rows) ==
    LET setCols == ColumnsIn(BeforeWhere(stmt.stmt_text))
        whereCols == ColumnsIn(AfterWhere(stmt.stmt_text))
        setParams == SubSeq(stmt.stmt_params, 1, Len(setCols))
        whereParams == SubSeq(stmt.stmt_params, Len(setCols) + 1, Len(stmt.stmt_params))
        hit == {r \in rows : Matches(r, whereCols, whereParams)}
        changed(r) == [c \in ColumnSet |->
                         IF c \in Range(setCols)
                         THEN Bound(setParams[CHOOSE i \in 1..Len(setCols) : setCols[i] = c])
                         ELSE r[c]]
    IN IF BindError(stmt) # "none" THEN [err |-> BindError(stmt), rows |-> rows, rowcount |-> 0]
       ELSE IF setCols = <<>> \/ whereCols = <<>>
       THEN [err |-> "OperationalError", rows |-> rows, rowcount |-> 0]
       ELSE [err |-> "none", rows |-> (rows \ hit) \cup {changed(r) : r \in hit},
             rowcount |-> Cardinality(hit)]

\* DELETE FROM t WHERE key = ? AND ...
ExecDelete(stmt, rows) ==
    LET whereCols == ColumnsIn(AfterWhere(stmt.stmt_text))
        hit == {r \in rows : Matches(r, whereCols, stmt.stmt_params)}
    IN IF BindError(stmt) # "none" THEN [err |-> BindError(stmt), rows |-> rows, rowcount |-> 0]
       ELSE IF whereCols = <<>> THEN [err |-> "OperationalError", rows |-> rows, rowcount |-> 0]
       ELSE [err |-> "none", rows |-> rows \ hit, rowcount |-> Cardinality(hit)]

\* the result row of a SELECT: the values of the selected columns, in their order
ResultRow(row, selectCols) == [i \in 1..Len(selectCols) |-> row[selectCols[i]]]

\* row r sorts before row q by the ORDER BY columns (lexicographic, ascending)
RECURSIVE SortsBefore(_, _, _)
SortsBefore(r, q, orderCols) ==
    IF orderCols = <<>> THEN FALSE
    ELSE IF r[orderCols[1]] # q[orderCols[1]] THEN r[orderCols[1]] < q[orderCols[1]]
    ELSE SortsBefore(r, q, Tail(orderCols))

RECURSIVE OrderedRows(_, _)
OrderedRows(rows, orderCols) ==
    IF rows = {} THEN <<>>
    ELSE LET first == CHOOSE r \in rows : \A q \in rows : ~SortsBefore(q, r, orderCols)
         IN <<first>> \o OrderedRows(rows \ {first}, orderCols)

\* SELECT cols FROM t WHERE key = ? AND ...  followed by fetchone()
ExecSelectByKey(stmt, rows) ==
    LET selectCols == ColumnsIn(BeforeWhere(stmt.stmt_text))
        whereCols == ColumnsIn(AfterWhere(stmt.stmt_text))
        hit == {r \in rows : Matches(r, whereCols, stmt.stmt_params)}
    IN IF BindError(stmt) # "none" THEN [err |-> BindError(stmt), fetched |-> <<>>]
       ELSE IF selectCols = <<>> \/ whereCols = <<>>
       THEN [err |-> "OperationalError", fetched |-> <<>>]
       ELSE IF hit = {} THEN [err |-> "none", fetched |-> <<>>]
       ELSE [err |-> "none",
             fetched |-> <<ResultRow(OrderedRows(hit, whereCols)[1], selectCols)>>]

\* one criterion of a WHERE clause, as SQLite evaluates it on a row
TermHolds(row, col, op, params) ==
    LET x == row[col]
    IN CASE Upper(op) \in {"=", "LIKE"} -> x = Bound(params[1])
         [] Upper(op) = "!=" -> x # Bound(params[1])
         [] Upper(op) = ">" -> x > Bound(params[1])
         [] Upper(op) = "<" -> x < Bound(params[1])
         [] Upper(op) = "<=" -> x <= Bound(params[1])
         [] Upper(op) = "BETWEEN" -> Bound(params[1]) <= x /\ x <= Bound(params[2])
         [] Upper(op) = "IN" -> \E i \in 1..Len(params) : x = Bound(params[i])
         [] OTHER -> FALSE

\* the parameters the first n criteria used (one placeholder each piece "?")
RECURSIVE CriteriaHold(_, _, _, _)
CriteriaHold(amap, row, criteria, params) ==
    IF criteria = <<>> THEN TRUE
    ELSE LET term == criteria[1]
             used == IF Upper(term.op) = "BETWEEN" THEN 2
                     ELSE IF Upper(term.op) = "IN" THEN PyLen(term.val)
                     ELSE 1
         IN /\ TermHolds(row, getitem(amap, term.att).db_attr_name, term.op,
                         SubSeq(params, 1, used))
            /\ CriteriaHold(amap, row, Tail(criteria), SubSeq(params, used + 1, Len(params)))

\* "=>" is no comparison of SQLite, "IN ( )" with no element is accepted
SqlSyntaxOk(criteria) == \A i \in 1..Len(criteria) : Upper(criteria[i].op) # "=>"

\* SELECT cols FROM t [WHERE criteria] ORDER BY keys  followed by fetchall()
ExecSelectList(amap, stmt, criteria, rows) ==
    LET selectCols == ColumnsIn(SubSeq(stmt.stmt_text, 1, PositionOf(stmt.stmt_text, " FROM ") - 1))
        orderCols == ColumnsIn(SubSeq(stmt.stmt_text, PositionOf(stmt.stmt_text, " ORDER BY ") + 1,
                                      Len(stmt.stmt_text)))
        hit == {r \in rows : CriteriaHold(amap, r, criteria, stmt.stmt_params)}
        ordered == OrderedRows(hit, orderCols)
    IN IF selectCols = <<>> \/ orderCols = <<>> \/ ~SqlSyntaxOk(criteria)
       THEN [err |-> "OperationalError", fetched |-> <<>>]
       ELSE IF BindError(stmt) # "none" THEN [err |-> BindError(stmt), fetched |-> <<>>]
       ELSE [err |-> "none",
             fetched |-> [i \in 1..Len(ordered) |-> ResultRow(ordered[i], selectCols)]]

----------------------------------------------------------------------------
(* RepositoryElement.load_row *)

\* the element the contents type's constructor returns
NewElement == [a \in AttrSet |-> None]

\* load_row that counts the row index from the end of the row
RowItem_FromEnd(cursor_row, index) == cursor_row[Len(cursor_row) - index]

\* cursor_row[index] of Python: a negative index counts from the end
RowIndexOk(cursor_row, index) == -Len(cursor_row) <= index /\ index < Len(cursor_row)
RowItem(cursor_row, index) ==
    IF index >= 0 THEN cursor_row[index + 1] ELSE cursor_row[Len(cursor_row) + index + 1]

\* every mapped attribute is an int here: an int is kept, int(None) raises TypeError
_type_conversion(db_attr_value) ==
    IF db_attr_value = Null THEN [err |-> "TypeError", val |-> None]
    ELSE [err |-> "none", val |-> Scalar(db_attr_value)]

\* the loop of load_row over all mappings; the first exception ends it
RECURSIVE LoadLoop(_, _, _)
LoadLoop(ms, cursor_row, elem) ==
    IF ms = <<>> THEN [err |-> "none", elem |-> elem]
    ELSE IF ~RowIndexOk(cursor_row, ms[1].select_rank)
    THEN [err |-> "IndexError", elem |-> elem]
    ELSE LET conv == _type_conversion(RowItem(cursor_row, ms[1].select_rank))
         IN IF conv.err # "none" THEN [err |-> conv.err, elem |-> elem]
            ELSE LoadLoop(Tail(ms), cursor_row,
                          [elem EXCEPT ![ms[1].class_attr_name] = conv.val])

\* mutant: only the mappings of the SELECT list are loaded
load_row_SelectedOnly(amap, elem, cursor_row) ==
    LoadLoop(attributes_for_select(amap), cursor_row, elem)

load_row(amap, elem, cursor_row) == LoadLoop(amap.mappings, cursor_row, elem)

\* the loop of select_all / select_where over the fetched rows
RECURSIVE LoadAll(_, _)
LoadAll(amap, fetched) ==
    IF fetched = <<>> THEN [err |-> "none", elems |-> <<>>]
    ELSE LET one == load_row(amap, NewElement, fetched[1])
             rest == LoadAll(amap, Tail(fetched))
         IN IF one.err # "none" THEN [err |-> one.err, elems |-> <<>>]
            ELSE IF rest.err # "none" THEN rest
            ELSE [err |-> "none", elems |-> <<one.elem>> \o rest.elems]

----------------------------------------------------------------------------
(* SQLiteRepository: construction, life cycle and data operations *)

\* the contents type of the repository: key a, values b and c, as the tests declare
RepoMappings ==
    <<AttributeMapping(0, Attrs[1], Columns[1], 1, TRUE, TRUE),
      AttributeMapping(1, Attrs[2], Columns[2], 0, TRUE, TRUE),
      AttributeMapping(2, Attrs[3], Columns[3], 0, TRUE, TRUE)>>

\* the elements handed to the repository
RepoElements ==
    {[a \in AttrSet |-> Scalar(IF a = "a" THEN k ELSE IF a = "b" THEN v ELSE 1)] :
        k \in Values, v \in Values}

\* the element handed to a repository whose life cycle is followed
LifeElements == {e \in RepoElements : e["a"] = Scalar(1) /\ e["b"] = Scalar(1)}

\* the criteria lists handed to select_where
RepoCriteria ==
    {<<>>,
     <<[att |-> "b", op |-> "=", val |-> Scalar(1)]>>,
     <<[att |-> "a", op |-> "BETWEEN", val |-> PyTuple(<<1, 2>>)]>>,
     <<[att |-> UnknownAttr, op |-> "=", val |-> Scalar(1)]>>,
     <<[att |-> "a", op |-> "=", val |-> Scalar(1)], [att |-> UnknownAttr, op |-> "=", val |-> Scalar(1)]>>,
     <<[att |-> "a", op |-> "<>", val |-> Scalar(1)], [att |-> UnknownAttr, op |-> "=", val |-> Scalar(1)]>>,
     <<[att |-> UnknownAttr, op |-> "<>", val |-> Scalar(1)], [att |-> "a", op |-> "=", val |-> Scalar(1)]>>}

\* SQLiteRepository(contents_type, sqlite_file_path, sql_connection)
InitRepo ==
    /\ attribute_map = AttributeMap(TableName, RepoMappings)
    /\ entity = NewElement
    /\ entity_in = NewElement
    /\ where_criteria = <<>>
    /\ sql_stmt = SQLStatement
    /\ last_op = "__init__"
    /\ last_err = "none"
    /\ sql_file_path \in {NoPath, DbPath}
    /\ sql_connection \in {NoConn, ExtConn}
    /\ can_close = (sql_connection = NoConn)
    /\ conn_state = [c \in Conns |-> IF c = sql_connection THEN "open" ELSE "unused"]
    /\ conn_pragma = [c \in Conns |-> 0]
    /\ closed_by_repo = {}
    /\ op_closed = NoConn
    /\ op_executed = 0
    /\ op_commits = 0
    /\ op_cursors_open = 0
    /\ db_rows = {}
    /\ db_committed = {}
    /\ with_pc = "out"
    /\ with_conn = NoConn
    /\ with_outcome = "none"
    /\ op_result = None
    /\ close_again = FALSE
    /\ op_do_commit = TRUE
    /\ op_calls = <<>>
    /\ op_path = NoPath
    /\ QueueIdle

\* the object exists until __del__ has run
Alive == last_op # "__del__"

\* sqlite3.connect returns a connection that was not in use before
CanConnect == \E c \in Conns \ {ExtConn} : conn_state[c] = "unused"
NewConn == CHOOSE c \in Conns \ {ExtConn} :
               conn_state[c] = "unused" /\ \A d \in Conns \ {ExtConn} : conn_state[d] = "unused" => c <= d

\* what an operation that touches no statement leaves alone
NoStatement ==
    /\ where_criteria' = <<>>
    /\ sql_stmt' = SQLStatement
    /\ entity' = NewElement
    /\ entity_in' = NewElement
    /\ UNCHANGED attribute_map

\* open(sqlite_file_path) as far as the repository object and the sessions go
\* (the effect); the new session sees the committed rows only
\* open() that hands whatever it is given to sqlite3.connect
open_raises_Never(sqlite_file_path) == FALSE

open_raises(sqlite_file_path) == sqlite_file_path = NoPath

open_effect ==
    /\ sql_connection' = NewConn
    /\ conn_state' = [conn_state EXCEPT ![NewConn] = "open"]
    /\ conn_pragma' = [conn_pragma EXCEPT ![NewConn] = @ + 1]
    /\ can_close' = TRUE
    /\ db_rows' = db_committed
    /\ UNCHANGED <<sql_file_path, closed_by_repo, db_committed>>

\* close(): closes the session only when the repository may and holds one; rows
\* not committed are rolled back with the session
\* close() that does not look at _can_close
close_closes_IgnoresOwnership == sql_connection # NoConn

close_closes == can_close /\ sql_connection # NoConn

\* close() that closes the session and keeps the reference to it
close_effect_KeepsReference ==
    IF close_closes
    THEN /\ conn_state' = [conn_state EXCEPT ![sql_connection] = "closed"]
         /\ closed_by_repo' = closed_by_repo \cup {sql_connection}
         /\ op_closed' = sql_connection
         /\ db_rows' = db_committed
         /\ UNCHANGED <<sql_file_path, sql_connection, can_close, conn_pragma, db_committed>>
    ELSE /\ op_closed' = NoConn
         /\ UNCHANGED <<sql_file_path, sql_connection, can_close, conn_state, conn_pragma,
                        closed_by_repo, db_rows, db_committed>>

\* close() that drops the reference whether or not it closes the session
close_effect_DropsAlways ==
    IF close_closes
    THEN /\ conn_state' = [conn_state EXCEPT ![sql_connection] = "closed"]
         /\ closed_by_repo' = closed_by_repo \cup {sql_connection}
         /\ op_closed' = sql_connection
         /\ sql_connection' = NoConn
         /\ db_rows' = db_committed
         /\ UNCHANGED <<sql_file_path, can_close, conn_pragma, db_committed>>
    ELSE /\ op_closed' = NoConn
         /\ sql_connection' = NoConn
         /\ UNCHANGED <<sql_file_path, can_close, conn_state, conn_pragma,
                        closed_by_repo, db_rows, db_committed>>

\* close() that commits what is pending before it closes the session
close_effect_Commits ==
    IF close_closes
    THEN /\ conn_state' = [conn_state EXCEPT ![sql_connection] = "closed"]
         /\ closed_by_repo' = closed_by_repo \cup {sql_connection}
         /\ op_closed' = sql_connection
         /\ sql_connection' = NoConn
         /\ db_committed' = db_rows
         /\ UNCHANGED <<sql_file_path, can_close, conn_pragma, db_rows>>
    ELSE /\ op_closed' = NoConn
         /\ UNCHANGED <<sql_file_path, sql_connection, can_close, conn_state, conn_pragma,
                        closed_by_repo, db_rows, db_committed>>

close_effect ==
    IF close_closes
    THEN /\ conn_state' = [conn_state EXCEPT ![sql_connection] = "closed"]
         /\ closed_by_repo' = closed_by_repo \cup {sql_connection}
         /\ op_closed' = sql_connection
         /\ sql_connection' = NoConn
         /\ db_rows' = db_committed
         /\ UNCHANGED <<sql_file_path, can_close, conn_pragma, db_committed>>
    ELSE /\ op_closed' = NoConn
         /\ UNCHANGED <<sql_file_path, sql_connection, can_close, conn_state, conn_pragma,
                        closed_by_repo, db_rows, db_committed>>

Open ==
    /\ Alive
    /\ \E path \in {NoPath, DbPath} :
          /\ last_op' = "open"
          /\ NoStatement
          /\ op_commits' = 0
          /\ op_cursors_open' = 0
          /\ op_result' = None
          /\ op_closed' = NoConn
          /\ with_outcome' = "none"
          /\ close_again' = FALSE
          /\ op_do_commit' = TRUE
          /\ op_calls' = <<>>
          /\ op_path' = path
          /\ UNCHANGED queue_vars
          /\ UNCHANGED <<with_pc, with_conn>>
          /\ IF open_raises(path)
             THEN /\ last_err' = "ValueError"
                  /\ op_executed' = 0
                  /\ UNCHANGED <<sql_file_path, sql_connection, can_close, conn_state,
                                 conn_pragma, closed_by_repo, db_rows, db_committed>>
             ELSE /\ CanConnect
                  /\ last_err' = "none"
                  /\ op_executed' = 1
                  /\ open_effect

Close ==
    /\ Alive
    /\ last_op' = "close"
    /\ last_err' = "none"
    /\ NoStatement
    /\ op_executed' = 0
    /\ op_commits' = 0
    /\ op_cursors_open' = 0
    /\ op_result' = None
    /\ close_effect
    /\ with_outcome' = "none"
    /\ close_again' = (last_op = "close")
    /\ op_do_commit' = TRUE
    /\ op_calls' = <<>>
    /\ op_path' = NoPath
    /\ UNCHANGED queue_vars
    /\ UNCHANGED <<with_pc, with_conn>>

\* __del__: close(), and the object is gone
Del ==
    /\ Alive
    /\ with_pc = "out"
    /\ last_op' = "__del__"
    /\ last_err' = "none"
    /\ NoStatement
    /\ op_executed' = 0
    /\ op_commits' = 0
    /\ op_cursors_open' = 0
    /\ op_result' = None
    /\ close_effect
    /\ with_outcome' = "none"
    /\ close_again' = FALSE
    /\ op_do_commit' = TRUE
    /\ op_calls' = <<>>
    /\ op_path' = NoPath
    /\ UNCHANGED queue_vars
    /\ UNCHANGED <<with_pc, with_conn>>

\* __enter__: opens with the configured path when no connection is held; an
\* exception of open() leaves the "with" block unentered
Enter ==
    /\ Alive
    /\ with_pc = "out"
    /\ last_op' = "__enter__"
    /\ NoStatement
    /\ op_commits' = 0
    /\ op_cursors_open' = 0
    /\ op_result' = None
    /\ op_closed' = NoConn
    /\ with_outcome' = "none"
    /\ close_again' = FALSE
    /\ op_do_commit' = TRUE
    /\ op_calls' = <<>>
    /\ op_path' = NoPath
    /\ UNCHANGED queue_vars
    /\ IF sql_connection # NoConn
       THEN /\ last_err' = "none"
            /\ op_executed' = 0
            /\ with_pc' = "in"
            /\ with_conn' = NoConn
            /\ UNCHANGED <<sql_file_path, sql_connection, can_close, conn_state,
                           conn_pragma, closed_by_repo, db_rows, db_committed>>
       ELSE IF open_raises(sql_file_path)
       THEN /\ last_err' = "ValueError"
            /\ op_executed' = 0
            /\ UNCHANGED <<with_pc, with_conn>>
            /\ UNCHANGED <<sql_file_path, sql_connection, can_close, conn_state,
                           conn_pragma, closed_by_repo, db_rows, db_committed>>
       ELSE /\ CanConnect
            /\ last_err' = "none"
            /\ op_executed' = 1
            /\ with_pc' = "in"
            /\ with_conn' = NewConn
            /\ open_effect

\* __exit__ that returns True, as its annotation "-> bool" allows
exit_returns_True == Scalar(1)

\* the value __exit__ returns: the method ends without a return statement
exit_returns == None
Truthy(v) == v.kind # "none"

\* __exit__(exc_type, exc_value, exc_traceback): raised tells whether the block
\* is left by an exception
Exit ==
    /\ Alive
    /\ with_pc = "in"
    /\ \E raised \in BOOLEAN :
          /\ last_op' = "__exit__"
          /\ last_err' = "none"
          /\ NoStatement
          /\ op_executed' = 0
          /\ op_commits' = 0
          /\ op_cursors_open' = 0
          /\ op_result' = exit_returns
          /\ close_effect
          /\ with_pc' = "out"
          /\ with_conn' = NoConn
          /\ with_outcome' = IF ~raised THEN "normal"
                             ELSE IF Truthy(exit_returns) THEN "suppressed" ELSE "raised"
          /\ close_again' = FALSE
          /\ op_do_commit' = TRUE
          /\ op_calls' = <<>>
          /\ op_path' = NoPath
          /\ UNCHANGED queue_vars

\* the owner of the externally supplied connection closes it
OwnerCloses ==
    /\ conn_state[ExtConn] = "open"
    /\ conn_state' = [conn_state EXCEPT ![ExtConn] = "closed"]
    /\ UNCHANGED <<attribute_map, entity, entity_in, where_criteria, sql_stmt, last_op, last_err,
                   sql_file_path, sql_connection, can_close, conn_pragma, closed_by_repo,
                   op_closed, op_executed, op_commits, op_cursors_open, db_rows,
                   db_committed, with_pc, with_conn, with_outcome, op_result, close_again,
               op_do_commit, op_calls, op_path>>
    /\ UNCHANGED queue_vars

\* a cursor is handed out whatever the state of the connection
CursorError_Never == "none"

\* self._sql_connection.cursor(): AttributeError on None, ProgrammingError on a
\* closed session
CursorError ==
    IF sql_connection = NoConn THEN "AttributeError"
    ELSE IF conn_state[sql_connection] # "open" THEN "ProgrammingError"
    ELSE "none"

\* an I/O failure of the session makes cursor.execute raise
IoFailure == [err |-> "OperationalError"]

\* select_by_key that loads the row into its argument and returns the argument
ElementResult_Argument(obj, elem) == [kind |-> "element", obj |-> "argument", items |-> <<elem>>]

\* objects a select returns: obj tells whether the object was made by a call of
\* self._contents_type() ("constructed") or is the argument of the operation
ElementResult(obj, elem) == [kind |-> "element", obj |-> obj, items |-> <<elem>>]
ListResult(elems) == [kind |-> "elements", obj |-> "constructed", items |-> elems]

\* the calls of a data operation: cursor(), cursor.execute(), cursor.close() unless
\* execute raised, and connection.commit() last when do_commit is set; none when
\* cursor() itself raised or was not reached
CallsMade(executed, cursors, commits) ==
    IF executed = 0 THEN <<>>
    ELSE <<"cursor", "execute">>
         \o (IF cursors = 0 THEN <<"cursor.close">> ELSE <<>>)
         \o (IF commits > 0 THEN <<"commit">> ELSE <<>>)

\* the end of a data operation: what it leaves in the repository and the session
Returned(name, elem, criteria, stmt, err, executed, cursors, commits, rows, result) ==
    /\ last_op' = name
    /\ last_err' = err
    /\ entity' = elem
    /\ where_criteria' = criteria
    /\ sql_stmt' = stmt
    /\ op_executed' = executed
    /\ op_cursors_open' = cursors
    /\ op_commits' = commits
    /\ op_calls' = CallsMade(executed, cursors, commits)
    /\ op_path' = NoPath
    /\ UNCHANGED queue_vars
    /\ db_rows' = rows
    /\ db_committed' = IF commits > 0 THEN rows ELSE db_committed
    /\ op_result' = result
    /\ op_closed' = NoConn
    /\ with_outcome' = "none"
    /\ close_again' = FALSE
    /\ UNCHANGED <<attribute_map, sql_file_path, sql_connection, can_close, conn_state,
                   conn_pragma, closed_by_repo, with_pc, with_conn>>

\* an exception before any cursor exists
RaisedEarly(name, elem, criteria, err) ==
    Returned(name, elem, criteria, SQLStatement, err, 0, 0, 0, db_rows, None)

\* a failing statement that makes the operation roll the session back
RaisedInExecute_RollsBack(name, elem, criteria, stmt, err) ==
    Returned(name, elem, criteria, stmt, err, 1, 1, 0, db_committed, None)

\* an exception of cursor.execute: the cursor stays open, nothing is committed
RaisedInExecute(name, elem, criteria, stmt, err) ==
    Returned(name, elem, criteria, stmt, err, 1, 1, 0, db_rows, None)

\* an operation that commits whatever do_commit says
Commits_Always(do_commit) == 1

Commits(do_commit) == IF do_commit THEN 1 ELSE 0

\* RepositoryElement.insert that returns the row count and writes no key back
element_insert_result_RowCount(amap, elem, exec) ==
    [elem |-> elem, res |-> Scalar(exec.rowcount)]

\* RepositoryElement.insert after cursor.execute: the element it leaves and the
\* value it returns
element_insert_result(amap, elem, exec) ==
    IF has_auto_increment_key(amap)
    THEN [elem |-> [elem EXCEPT ![amap.auto_increment_attr.class_attr_name] =
                                    Scalar(exec.lastrowid)],
          res |-> Scalar(exec.lastrowid)]
    ELSE [elem |-> elem, res |-> Scalar(exec.rowcount)]

\* the table of an auto-increment key takes rows while its row ids stay within
\* MaxRowId
RoomForRow(amap, rows) ==
    \A c \in AutoColumns(amap) : NextRowId(rows, c) <= MaxRowId

\* insert(element, do_commit): RepositoryElement.insert runs between cursor() and
\* cursor.close()
Insert(elems, commits) ==
    /\ Alive
    /\ RoomForRow(attribute_map, db_rows)
    /\ \E elem \in elems, do_commit \in commits, io_fails \in BOOLEAN :
          /\ entity_in' = elem
          /\ op_do_commit' = do_commit
          /\ LET stmt == insert_statement(attribute_map, elem)
                 exec == IF io_fails THEN IoFailure ELSE ExecInsert(attribute_map, stmt, db_rows)
                 done == element_insert_result(attribute_map, elem, exec)
             IN IF CursorError # "none" THEN RaisedEarly("insert", elem, <<>>, CursorError)
                ELSE IF exec.err # "none" THEN RaisedInExecute("insert", elem, <<>>, stmt, exec.err)
                ELSE Returned("insert", done.elem, <<>>, stmt, "none", 1, 0, Commits(do_commit),
                              exec.rows, done.res)

Update(elems, commits) ==
    /\ Alive
    /\ \E elem \in elems, do_commit \in commits, io_fails \in BOOLEAN :
          /\ entity_in' = elem
          /\ op_do_commit' = do_commit
          /\ LET stmt == update_statement(attribute_map, elem)
                 exec == IF io_fails THEN IoFailure ELSE ExecUpdate(stmt, db_rows)
             IN IF CursorError # "none" THEN RaisedEarly("update", elem, <<>>, CursorError)
                ELSE IF exec.err # "none" THEN RaisedInExecute("update", elem, <<>>, stmt, exec.err)
                ELSE Returned("update", elem, <<>>, stmt, "none", 1, 0, Commits(do_commit),
                              exec.rows, Scalar(exec.rowcount))

Delete(elems, commits) ==
    /\ Alive
    /\ \E elem \in elems, do_commit \in commits, io_fails \in BOOLEAN :
          /\ entity_in' = elem
          /\ op_do_commit' = do_commit
          /\ LET stmt == delete_statement(attribute_map, elem)
                 exec == IF io_fails THEN IoFailure ELSE ExecDelete(stmt, db_rows)
             IN IF CursorError # "none" THEN RaisedEarly("delete", elem, <<>>, CursorError)
                ELSE IF exec.err # "none" THEN RaisedInExecute("delete", elem, <<>>, stmt, exec.err)
                ELSE Returned("delete", elem, <<>>, stmt, "none", 1, 0, Commits(do_commit),
                              exec.rows, Scalar(exec.rowcount))

\* select_by_key(source_element, do_commit): the statement is built before cursor()
SelectByKey(elems, commits) ==
    /\ Alive
    /\ \E elem \in elems, do_commit \in commits, io_fails \in BOOLEAN :
          /\ entity_in' = elem
          /\ op_do_commit' = do_commit
          /\ LET stmt == select_by_key_statement(attribute_map, elem)
                 exec == IF io_fails THEN IoFailure ELSE ExecSelectByKey(stmt, db_rows)
                 loaded == load_row(attribute_map, NewElement, exec.fetched[1])
             IN IF CursorError # "none" THEN RaisedEarly("select_by_key", elem, <<>>, CursorError)
                ELSE IF exec.err # "none"
                THEN RaisedInExecute("select_by_key", elem, <<>>, stmt, exec.err)
                ELSE IF exec.fetched = <<>>
                THEN Returned("select_by_key", elem, <<>>, stmt, "none", 1, 0, Commits(do_commit),
                              db_rows, None)
                ELSE Returned("select_by_key", elem, <<>>, stmt, loaded.err, 1, 0,
                              Commits(do_commit), db_rows,
                              IF loaded.err = "none" THEN ElementResult("constructed", loaded.elem) ELSE None)

SelectAll(commits) ==
    /\ Alive
    /\ \E do_commit \in commits, io_fails \in BOOLEAN :
          /\ entity_in' = NewElement
          /\ op_do_commit' = do_commit
          /\ LET stmt == select_all_statement(attribute_map)
                 exec == IF io_fails THEN IoFailure
                         ELSE ExecSelectList(attribute_map, stmt, <<>>, db_rows)
                 loaded == LoadAll(attribute_map, exec.fetched)
             IN IF CursorError # "none" THEN RaisedEarly("select_all", NewElement, <<>>, CursorError)
                ELSE IF exec.err # "none"
                THEN RaisedInExecute("select_all", NewElement, <<>>, stmt, exec.err)
                ELSE Returned("select_all", NewElement, <<>>, stmt, loaded.err, 1, 0,
                              Commits(do_commit), db_rows,
                              IF loaded.err = "none" THEN ListResult(loaded.elems) ELSE None)

\* select_where that asks for the cursor before it builds the statement
SelectWhere_CursorFirst(criteriaLists, commits) ==
    /\ Alive
    /\ \E criteria \in criteriaLists, do_commit \in commits, io_fails \in BOOLEAN :
          /\ entity_in' = NewElement
          /\ op_do_commit' = do_commit
          /\ LET built == select_where_statement(attribute_map, criteria)
                 exec == IF io_fails THEN IoFailure
                         ELSE ExecSelectList(attribute_map, built.stmt, criteria, db_rows)
                 loaded == LoadAll(attribute_map, exec.fetched)
             IN IF CursorError # "none"
                THEN RaisedEarly("select_where", NewElement, criteria, CursorError)
                ELSE IF built.err # "none"
                THEN Returned("select_where", NewElement, criteria, SQLStatement, built.err,
                              0, 1, 0, db_rows, None)
                ELSE IF exec.err # "none"
                THEN RaisedInExecute("select_where", NewElement, criteria, built.stmt, exec.err)
                ELSE Returned("select_where", NewElement, criteria, built.stmt, loaded.err, 1, 0,
                              Commits(do_commit), db_rows,
                              IF loaded.err = "none" THEN ListResult(loaded.elems) ELSE None)

\* select_where(where_criteria, do_commit): an exception of select_where_statement
\* is raised before cursor()
SelectWhere(criteriaLists, commits) ==
    /\ Alive
    /\ \E criteria \in criteriaLists, do_commit \in commits, io_fails \in BOOLEAN :
          /\ entity_in' = NewElement
          /\ op_do_commit' = do_commit
          /\ LET built == select_where_statement(attribute_map, criteria)
                 exec == IF io_fails THEN IoFailure
                         ELSE ExecSelectList(attribute_map, built.stmt, criteria, db_rows)
                 loaded == LoadAll(attribute_map, exec.fetched)
             IN IF built.err # "none"
                THEN RaisedEarly("select_where", NewElement, criteria, built.err)
                ELSE IF CursorError # "none"
                THEN RaisedEarly("select_where", NewElement, criteria, CursorError)
                ELSE IF exec.err # "none"
                THEN RaisedInExecute("select_where", NewElement, criteria, built.stmt, exec.err)
                ELSE Returned("select_where", NewElement, criteria, built.stmt, loaded.err, 1, 0,
                              Commits(do_commit), db_rows,
                              IF loaded.err = "none" THEN ListResult(loaded.elems) ELSE None)

NextRepo ==
    \/ Open
    \/ Close
    \/ Del
    \/ Enter
    \/ Exit
    \/ OwnerCloses
    \/ Insert(LifeElements, BOOLEAN)
    \/ Update(LifeElements, BOOLEAN)
    \/ Delete(LifeElements, BOOLEAN)
    \/ SelectByKey(LifeElements, BOOLEAN)
    \/ SelectAll(BOOLEAN)
    \/ SelectWhere(RepoCriteria, BOOLEAN)

SpecRepo == InitRepo /\ [][NextRepo]_vars

----------------------------------------------------------------------------
(* The repository at work on one open connection *)

\* the contents types the data operations are followed for: a two-column key whose
\* rank order is not its declaration order, an auto-increment key, a column left
\* out of INSERT and a column left out of UPDATE
CompositeKeyMappings ==
    <<AttributeMapping(1, Attrs[1], Columns[1], 1, TRUE, TRUE),
      AttributeMapping(0, Attrs[2], Columns[2], 1, TRUE, TRUE),
      AttributeMapping(2, Attrs[3], Columns[3], 0, TRUE, TRUE)>>

AutoKeyMappings ==
    <<AttributeMapping(0, Attrs[1], Columns[1], 2, TRUE, TRUE),
      AttributeMapping(1, Attrs[2], Columns[2], 0, TRUE, TRUE),
      AttributeMapping(2, Attrs[3], Columns[3], 0, TRUE, TRUE)>>

NotInsertedMappings ==
    <<AttributeMapping(0, Attrs[1], Columns[1], 1, TRUE, TRUE),
      AttributeMapping(1, Attrs[2], Columns[2], 0, TRUE, TRUE),
      AttributeMapping(2, Attrs[3], Columns[3], 0, FALSE, TRUE)>>

NotUpdatedMappings ==
    <<AttributeMapping(0, Attrs[1], Columns[1], 1, TRUE, TRUE),
      AttributeMapping(1, Attrs[2], Columns[2], 0, TRUE, TRUE),
      AttributeMapping(2, Attrs[3], Columns[3], 0, TRUE, FALSE)>>

DataMappings ==
    {CompositeKeyMappings, AutoKeyMappings, NotInsertedMappings, NotUpdatedMappings}

\* the elements handed to the data operations: (a, b, c)
DataElement(a, b, c) ==
    [x \in AttrSet |-> Scalar(IF x = "a" THEN a ELSE IF x = "b" THEN b ELSE c)]

DataElements ==
    {DataElement(1, 2, 1), DataElement(2, 1, 1), DataElement(1, 2, 2), DataElement(1, 1, 1)}

DataCriteria ==
    {<<[att |-> "a", op |-> "=", val |-> Scalar(1)]>>,
     <<[att |-> "b", op |-> ">", val |-> Scalar(1)]>>}

\* SQLiteRepository(contents_type, sql_connection = an open connection to a database
\* whose table is empty)
InitData ==
    /\ \E ms \in DataMappings : attribute_map = AttributeMap(TableName, ms)
    /\ entity = NewElement
    /\ entity_in = NewElement
    /\ where_criteria = <<>>
    /\ sql_stmt = SQLStatement
    /\ last_op = "__init__"
    /\ last_err = "none"
    /\ sql_file_path = NoPath
    /\ sql_connection = ExtConn
    /\ can_close = FALSE
    /\ conn_state = [c \in Conns |-> IF c = ExtConn THEN "open" ELSE "unused"]
    /\ conn_pragma = [c \in Conns |-> 0]
    /\ closed_by_repo = {}
    /\ op_closed = NoConn
    /\ op_executed = 0
    /\ op_commits = 0
    /\ op_cursors_open = 0
    /\ db_rows = {}
    /\ db_committed = {}
    /\ with_pc = "out"
    /\ with_conn = NoConn
    /\ with_outcome = "none"
    /\ op_result = None
    /\ close_again = FALSE
    /\ op_do_commit = TRUE
    /\ op_calls = <<>>
    /\ op_path = NoPath
    /\ QueueIdle

NextData ==
    \/ Insert(DataElements, {TRUE})
    \/ Update(DataElements, {TRUE})
    \/ Delete(DataElements, {TRUE})
    \/ SelectByKey(DataElements, {TRUE})
    \/ SelectAll({TRUE})
    \/ SelectWhere(DataCriteria, {TRUE})

SpecData == InitData /\ [][NextData]_vars

----------------------------------------------------------------------------
(* The statement builders applied to every declared map *)

\* the criteria select_where_statement is given here: one comparison
StmtCriteria == <<[att |-> "a", op |-> "=", val |-> Scalar(1)]>>

InitStmt ==
    /\ \E ms \in DeclaredMappings : attribute_map = AttributeMap(TableName, ms)
    /\ entity \in StmtElements
    /\ entity_in = entity
    /\ where_criteria = StmtCriteria
    /\ sql_stmt = SQLStatement
    /\ last_op = "init"
    /\ last_err = "none"
    /\ RepoIdle
    /\ QueueIdle

\* builders that write into one SQLStatement shared by all calls
Built_SharedStatement(op, stmt) ==
    /\ sql_stmt' = [stmt_text |-> sql_stmt.stmt_text \o stmt.stmt_text,
                    stmt_params |-> sql_stmt.stmt_params \o stmt.stmt_params]
    /\ last_op' = op
    /\ last_err' = "none"
    /\ UNCHANGED <<attribute_map, entity, entity_in, where_criteria>>
    /\ UNCHANGED <<repo_vars, queue_vars>>

\* a builder call: the caller gets the statement, which is a new SQLStatement
Built(op, stmt) ==
    /\ sql_stmt' = stmt
    /\ last_op' = op
    /\ last_err' = "none"
    /\ UNCHANGED <<attribute_map, entity, entity_in, where_criteria>>
    /\ UNCHANGED <<repo_vars, queue_vars>>

InsertStatement == Built("insert_statement", insert_statement(attribute_map, entity))

UpdateStatement == Built("update_statement", update_statement(attribute_map, entity))

DeleteStatement == Built("delete_statement", delete_statement(attribute_map, entity))

SelectByKeyStatement ==
    Built("select_by_key_statement", select_by_key_statement(attribute_map, entity))

SelectAllStatement == Built("select_all_statement", select_all_statement(attribute_map))

----------------------------------------------------------------------------
(* select_where_statement applied to every criterion *)

\* the operator strings a caller may pass: the documented ones in several spellings
\* and some that are no SQL comparison
OperatorStrings ==
    {"=", "!=", ">", "<", ">=", "<=", "=>", "LIKE", "like", "Like",
     "BETWEEN", "between", "IN", "in", "In", "==", "<>"}

\* criteria values: a scalar, or a list or tuple of up to MaxSeqLen scalars
SeqsOfValues == UNION {[1..n -> Values] : n \in 0..MaxSeqLen}
CriteriaValues ==
    {Scalar(v) : v \in Values} \cup {PyList(s) : s \in SeqsOfValues}
                               \cup {PyTuple(s) : s \in SeqsOfValues}

WhereTerms ==
    [att : AttrSet \cup {UnknownAttr}, op : OperatorStrings, val : CriteriaValues]

\* the terms the two-criteria lists are made of
ShortTerms ==
    [att : {"a", UnknownAttr}, op : {"=", "<>", "IN"}, val : {Scalar(1), PyList(<<1, 2>>)}]

CriteriaLists ==
    {<<>>} \cup {<<t>> : t \in WhereTerms} \cup {<<t1, t2>> : t1 \in ShortTerms, t2 \in ShortTerms}

\* the maps select_where_statement is applied to: any key roles, ranks 0, 1 and -1
WhereMappings ==
    {<<AttributeMapping(0, Attrs[1], Columns[1], k1, TRUE, TRUE),
       AttributeMapping(1, Attrs[2], Columns[2], k2, TRUE, TRUE),
       AttributeMapping(-1, Attrs[3], Columns[3], 0, TRUE, TRUE)>> :
        k1 \in 0..2, k2 \in 0..2}

InitWhere ==
    /\ \E ms \in WhereMappings : attribute_map = AttributeMap(TableName, ms)
    /\ entity = NewElement
    /\ entity_in = NewElement
    /\ where_criteria \in CriteriaLists
    /\ sql_stmt = SQLStatement
    /\ last_op = "init"
    /\ last_err = "none"
    /\ RepoIdle
    /\ QueueIdle

\* select_where_statement(where_criteria); an exception leaves the caller without
\* a statement
SelectWhereStatement ==
    LET built == select_where_statement(attribute_map, where_criteria)
    IN /\ sql_stmt' = IF built.err = "none" THEN built.stmt ELSE SQLStatement
       /\ last_op' = "select_where_statement"
       /\ last_err' = built.err
       /\ UNCHANGED <<attribute_map, entity, entity_in, where_criteria>>
       /\ UNCHANGED <<repo_vars, queue_vars>>

NextWhere == SelectWhereStatement \/ SelectAllStatement

SpecWhere == InitWhere /\ [][NextWhere]_vars

\* the six builders applied to every declared map
NextStmt ==
    \/ InsertStatement
    \/ UpdateStatement
    \/ DeleteStatement
    \/ SelectByKeyStatement
    \/ SelectAllStatement
    \/ SelectWhereStatement

SpecStmt == InitStmt /\ [][NextStmt]_vars

----------------------------------------------------------------------------
(* Reading the statement of the last builder call *)

\* the declared mapping of a column (column names are unique in the declared maps)
MappingOfColumn(col) == CHOOSE m \in Range(attribute_map.mappings) : m.db_attr_name = col
RankOfColumn(col) == MappingOfColumn(col).select_rank
ValueOfColumn(col) == entity[MappingOfColumn(col).class_attr_name]
InRankOrder(cols) ==
    \A i, j \in 1..Len(cols) : i < j => RankOfColumn(cols[i]) <= RankOfColumn(cols[j])
\* cols lists exactly the columns of the mappings in ms, each once
ExactlyColumnsOf(cols, ms) ==
    /\ Range(cols) = {m.db_attr_name : m \in ms}
    /\ Len(cols) = Cardinality(ms)
ValuesOf(cols) == [i \in 1..Len(cols) |-> ValueOfColumn(cols[i])]

----------------------------------------------------------------------------
(* Claims *)

\* C5: insert_statement emits exactly the columns of the mappings declared for
\* INSERT that are not an auto-increment key, in ascending select_rank order, one
\* "?" per column, and its parameters are the element's values of those
\* attributes in the same order.
C5_InsertColumnsAndParams ==
    last_op = "insert_statement" =>
        LET cols == ColumnsIn(sql_stmt.stmt_text)
            wanted == {m \in Range(attribute_map.mappings) : m.inc_insert /\ m.db_key # 2}
        IN /\ ExactlyColumnsOf(cols, wanted)
           /\ InRankOrder(cols)
           /\ CountPlaceholders(sql_stmt.stmt_text) = Len(cols)
           /\ sql_stmt.stmt_params = ValuesOf(cols)

\* C5 witness: an INSERT over two columns whose declaration order is not their rank
\* order, for a map whose auto-increment key is declared insertable and left out.
C5_Witness ==
    /\ last_op = "insert_statement"
    /\ ColumnsIn(sql_stmt.stmt_text) = <<"col_c", "col_a">>
    /\ \E m \in Range(attribute_map.mappings) :
          m.db_attr_name = "col_b" /\ m.db_key = 2 /\ m.inc_insert
    /\ Len(sql_stmt.stmt_params) = 2

\* C6: the SET list of update_statement holds no key and no auto-increment column,
\* its WHERE clause holds exactly the key columns in rank order, and its parameters
\* are the SET values in rank order followed by the key values in rank order.
C6_UpdateSetAndWhere ==
    last_op = "update_statement" =>
        LET setCols == ColumnsIn(BeforeWhere(sql_stmt.stmt_text))
            whereCols == ColumnsIn(AfterWhere(sql_stmt.stmt_text))
            keys == {m \in Range(attribute_map.mappings) : m.db_key # 0}
        IN /\ \A i \in 1..Len(setCols) : MappingOfColumn(setCols[i]).db_key = 0
           /\ InRankOrder(setCols)
           /\ ExactlyColumnsOf(whereCols, keys)
           /\ InRankOrder(whereCols)
           /\ sql_stmt.stmt_params = ValuesOf(setCols) \o ValuesOf(whereCols)

\* C6 witness: an UPDATE that sets one column and selects by two key columns, one of
\* them declared updatable, the keys declared in the reverse of their rank order.
C6_Witness ==
    /\ last_op = "update_statement"
    /\ ColumnsIn(BeforeWhere(sql_stmt.stmt_text)) = <<"col_b">>
    /\ ColumnsIn(AfterWhere(sql_stmt.stmt_text)) = <<"col_c", "col_a">>
    /\ \E m \in Range(attribute_map.mappings) :
          m.db_attr_name = "col_a" /\ m.db_key = 1 /\ m.inc_update
    /\ Len(sql_stmt.stmt_params) = 3

\* the text of a WHERE-by-key clause over the columns cols: one "col = ?" term per
\* column, joined by AND
RECURSIVE KeyTerms(_)
KeyTerms(cols) ==
    IF cols = <<>> THEN <<>>
    ELSE <<" AND ", cols[1], " = ", "?", " ">> \o KeyTerms(Tail(cols))

KeyClauseText(cols) ==
    IF cols = <<>> THEN <<>> ELSE <<" ">> \o Tail(KeyTerms(cols))

\* C15: delete_statement and select_by_key_statement end in the WHERE-by-key clause
\* of update_statement: exactly the key columns in rank order, one "col = ?" term
\* each, joined by AND, and their parameters are the entity's key values in the
\* same order and nothing else.
C15_KeyWhereClause ==
    last_op \in {"delete_statement", "select_by_key_statement"} =>
        LET clause == AfterWhere(sql_stmt.stmt_text)
            whereCols == ColumnsIn(clause)
            keys == {m \in Range(attribute_map.mappings) : m.db_key # 0}
        IN /\ HasPiece(sql_stmt.stmt_text, " WHERE ")
           /\ ExactlyColumnsOf(whereCols, keys)
           /\ InRankOrder(whereCols)
           /\ clause = KeyClauseText(whereCols)
           /\ clause = AfterWhere(update_statement(attribute_map, entity).stmt_text)
           /\ sql_stmt.stmt_params = ValuesOf(whereCols)
           /\ CountPlaceholders(sql_stmt.stmt_text) = Len(whereCols)

\* C15 witness: a DELETE by two key columns whose rank order is the reverse of
\* their declaration order
C15_Witness ==
    /\ last_op = "delete_statement"
    /\ ColumnsIn(AfterWhere(sql_stmt.stmt_text)) = <<"col_b", "col_a">>
    /\ Len(sql_stmt.stmt_params) = 2
    /\ sql_stmt.stmt_params[1] # sql_stmt.stmt_params[2]

\* the operators the specification lists for select-where criteria
LegalOperators == {"=", "!=", ">", "<", ">=", "<=", "LIKE", "BETWEEN", "IN"}

\* a select_where_statement call with one criterion on a mapped attribute
OneKnownTerm ==
    /\ last_op = "select_where_statement"
    /\ Len(where_criteria) = 1
    /\ where_criteria[1].att \in AttrSet

\* the text and parameters the criteria added: what follows the WHERE piece and
\* precedes the ORDER BY piece
TermText == SubSeq(sql_stmt.stmt_text, PositionOf(sql_stmt.stmt_text, " WHERE ") + 1,
                   PositionOf(sql_stmt.stmt_text, " ORDER BY ") - 1)

----------------------------------------------------------------------------
(* The life cycle of the connection *)

\* the repository was constructed with an externally supplied connection
ExternallySupplied == conn_state[ExtConn] # "unused"

\* C1: whatever open, close, __enter__, __exit__ and data operations ran on a
\* repository constructed with an externally supplied connection, the repository
\* has not closed that connection.
C1_ExternalNeverClosed ==
    ExternallySupplied => ExtConn \notin closed_by_repo

\* C1 witness: the repository was given a connection, later opened one of its own
\* and closed it on close(); the given connection is still open
C1_Witness ==
    /\ ExternallySupplied
    /\ last_op = "close"
    /\ op_closed \notin {NoConn, ExtConn}
    /\ conn_state[ExtConn] = "open"

\* C2: a close() that directly follows a close() (the owner of a supplied
\* connection may have closed it in between) closes no connection, raises nothing
\* and leaves the repository, the sessions and the table as they were.
C2_DoubleCloseNoOp ==
    [][(last_op = "close" /\ close_again' /\ ~OwnerCloses) =>
          /\ op_closed' = NoConn
          /\ last_err' = "none"
          /\ UNCHANGED <<attribute_map, sql_file_path, sql_connection, can_close, conn_state,
                         conn_pragma, closed_by_repo, db_rows, db_committed, with_pc,
                         with_conn>>]_vars

\* C2 witness: close() was called twice in a row on a repository that had closed
\* its own connection
C2_Witness ==
    /\ close_again
    /\ closed_by_repo # {}
    /\ sql_connection = NoConn

\* C3 as stated: after close() the repository holds no connection reference,
\* whether its connection was self-opened or externally supplied.
C3_NoReferenceAfterClose ==
    last_op = "close" => sql_connection = NoConn

\* C3: after close() a repository that may close its connection (_can_close: it
\* opened the connection itself, or was constructed without one) holds no
\* connection reference; a repository that was given its connection and never
\* opened one still holds the reference to the connection it was given.
C3_ReferenceAfterClose ==
    last_op = "close" =>
        IF can_close THEN sql_connection = NoConn ELSE sql_connection = ExtConn

\* C3 witness: close() returned on a repository that holds the connection it was
\* given, and the connection is open
C3_Witness ==
    /\ last_op = "close"
    /\ ~can_close
    /\ sql_connection = ExtConn
    /\ conn_state[ExtConn] = "open"

\* C4: __enter__ on a repository that has a file path and holds no connection
\* opens a connection; __exit__, reached normally or by an exception, closes the
\* connection __enter__ opened when the repository still holds it, and the
\* exception of the block is not suppressed.
C4_ScopedUse ==
    [][/\ (/\ with_pc = "out"
            /\ last_op' = "__enter__"
            /\ sql_connection = NoConn
            /\ sql_file_path # NoPath)
           => /\ with_pc' = "in"
              /\ sql_connection' # NoConn
              /\ sql_connection' = with_conn'
              /\ conn_state[sql_connection'] = "unused"
              /\ conn_state'[sql_connection'] = "open"
       /\ (/\ with_pc = "in"
            /\ with_pc' = "out"
            /\ with_conn # NoConn
            /\ sql_connection = with_conn)
           => /\ last_op' = "__exit__"
              /\ last_err' = "none"
              /\ op_closed' = with_conn
              /\ conn_state'[with_conn] = "closed"
              /\ sql_connection' = NoConn
              /\ with_outcome' \in {"normal", "raised"}]_vars

\* C4 witness: a "with" block was left by an exception, __exit__ closed the
\* connection the repository held and the exception goes on
C4_Witness ==
    /\ last_op = "__exit__"
    /\ with_outcome = "raised"
    /\ op_closed # NoConn
    /\ op_closed # ExtConn
    /\ conn_state[op_closed] = "closed"
    /\ sql_connection = NoConn

----------------------------------------------------------------------------
(* select_where with an attribute the map does not have *)

\* positions of the criteria that name an attribute absent from the map
UnknownAt(amap, criteria) ==
    {i \in DOMAIN criteria :
        \A m \in Range(amap.mappings) : m.class_attr_name # criteria[i].att}

\* a criterion select_where_statement rejects though its attribute is mapped
RejectedTerm(term) ==
    \/ Upper(term.op) \notin AcceptedOperators
    \/ Upper(term.op) = "IN" /\ term.val.kind \notin {"list", "tuple"}

\* the first criterion with an absent attribute has no rejected criterion before it
UnknownComesFirst(amap, criteria) ==
    \E i \in UnknownAt(amap, criteria) :
        \A j \in 1..(i - 1) : j \notin UnknownAt(amap, criteria) /\ ~RejectedTerm(criteria[j])

\* C10 as stated: select_where fails with the unknown-attribute error whenever any
\* criterion names an attribute absent from the map, and then executes no
\* statement and issues no commit.
C10_UnknownAttributeAlways ==
    (last_op = "select_where" /\ UnknownAt(attribute_map, where_criteria) # {}) =>
        /\ last_err = "InvalidAttribute"
        /\ op_executed = 0
        /\ op_commits = 0

\* C10: when a criterion names an attribute absent from the map, select_where
\* fails, executes no statement, issues no commit and opens no cursor, whether or
\* not it holds a connection; the error is the unknown-attribute error when no
\* criterion before the first such one is itself rejected, and the error of that
\* earlier criterion otherwise.
C10_UnknownAttribute ==
    (last_op = "select_where" /\ UnknownAt(attribute_map, where_criteria) # {}) =>
        /\ op_executed = 0
        /\ op_commits = 0
        /\ op_cursors_open = 0
        /\ op_result = None
        /\ IF UnknownComesFirst(attribute_map, where_criteria)
           THEN last_err = "InvalidAttribute"
           ELSE last_err \in {"InvalidOperator", "TypeError"}

\* C10 witness: select_where on an open connection with a valid criterion followed
\* by one on an absent attribute raised the unknown-attribute error
C10_Witness ==
    /\ last_op = "select_where"
    /\ Len(where_criteria) = 2
    /\ UnknownAt(attribute_map, where_criteria) = {2}
    /\ ~RejectedTerm(where_criteria[1])
    /\ sql_connection # NoConn
    /\ conn_state[sql_connection] = "open"
    /\ last_err = "InvalidAttribute"
    /\ op_executed = 0

----------------------------------------------------------------------------
(* The data operations on an open connection *)

AutoMappings == {m \in Range(attribute_map.mappings) : m.db_key = 2}
KeyMappings == {m \in Range(attribute_map.mappings) : m.db_key # 0}

\* the stored rows whose key columns hold the key values of elem
RowsOfKey(rows, elem) ==
    {r \in rows : \A m \in KeyMappings : Scalar(r[m.db_attr_name]) = elem[m.class_attr_name]}

\* C11: a successful insert on a map with an auto-increment key writes the key the
\* database generated into the element's auto-increment attribute (and changes no
\* other attribute) and returns it; on a map without one it leaves the element as
\* it was and returns the number of inserted rows, which is 1.
C11_InsertResult ==
    (last_op = "insert" /\ last_err = "none") =>
        IF AutoMappings # {}
        THEN \E m \in AutoMappings :
                /\ entity[m.class_attr_name] = op_result
                /\ \A x \in AttrSet \ {m.class_attr_name} : entity[x] = entity_in[x]
                /\ \E r \in db_rows :
                      /\ Scalar(r[m.db_attr_name]) = op_result
                      /\ \A k \in Range(attribute_map.mappings) \ {m} :
                            Scalar(r[k.db_attr_name]) = entity_in[k.class_attr_name]
        ELSE /\ entity = entity_in
             /\ op_result = Scalar(1)

\* C11 witness: an insert returned 2 and wrote 2 over the 1 the element held in its
\* auto-increment attribute
C11_Witness ==
    /\ last_op = "insert"
    /\ last_err = "none"
    /\ AutoMappings # {}
    /\ entity_in["a"] = Scalar(1)
    /\ entity["a"] = Scalar(2)
    /\ op_result = Scalar(2)

\* a step in which select_by_key(e) follows a successful insert(e) or an update(e)
\* that changed one row, on the element as that operation left it, and in which the
\* session does not fail
SelectsWhatWasWritten ==
    /\ last_op \in {"insert", "update"}
    /\ last_err = "none"
    /\ last_op = "update" => op_result = Scalar(1)
    /\ last_op' = "select_by_key"
    /\ entity_in' = entity
    /\ last_err' # "OperationalError"

\* the mappings whose column the statement of operation op writes or selects by
WrittenBy(op) ==
    {m \in Range(attribute_map.mappings) :
        IF op = "insert" THEN m.db_key = 2 \/ m.inc_insert
        ELSE m.db_key # 0 \/ m.inc_update}

SelectByKeyReturned ==
    (last_op = "select_by_key" /\ last_err = "none") =>
        /\ op_result = None <=> RowsOfKey(db_rows, entity_in) = {}
        /\ op_result # None => op_result.kind = "element" /\ op_result.obj = "constructed"
        /\ entity = entity_in

\* C13: delete(e) on a stored element returns 1 and removes the row; a
\* select_by_key(e) that follows it returns None; select_by_key returns None
\* exactly when no row matches the key and otherwise a newly constructed element,
\* never its argument.
C13_DeleteThenNotFound ==
    [][/\ (/\ last_op' = "delete"
            /\ last_err' = "none"
            /\ RowsOfKey(db_rows, entity_in') # {})
           => /\ op_result' = Scalar(1)
              /\ RowsOfKey(db_rows', entity_in') = {}
              /\ db_rows' = db_rows \ RowsOfKey(db_rows, entity_in')
       /\ (/\ last_op = "delete"
            /\ last_err = "none"
            /\ last_op' = "select_by_key"
            /\ entity_in' = entity_in
            /\ last_err' # "OperationalError")
           => last_err' = "none" /\ op_result' = None
       /\ SelectByKeyReturned']_vars

\* C13 witness: delete returned 1 for an element of a two-column key, its row is
\* gone and another row is still stored
C13_Witness ==
    /\ last_op = "delete"
    /\ last_err = "none"
    /\ op_result = Scalar(1)
    /\ db_rows # {}
    /\ RowsOfKey(db_rows, entity_in) = {}
    /\ Cardinality(KeyMappings) = 2

\* element e sorts before element f by the key attributes taken in rank order
KeyBefore(e, f) ==
    \E m \in KeyMappings :
        /\ e[m.class_attr_name].items[1] < f[m.class_attr_name].items[1]
        /\ \A k \in KeyMappings :
              k.select_rank < m.select_rank => e[k.class_attr_name] = f[k.class_attr_name]

\* element e holds the values of the stored row r
ElementOfRow(e, r) ==
    \A m \in Range(attribute_map.mappings) : e[m.class_attr_name] = Scalar(r[m.db_attr_name])

NoNullStored == \A r \in db_rows : \A c \in ColumnSet : r[c] # Null

DataOps == {"insert", "update", "delete", "select_by_key", "select_all", "select_where"}

\* the repository holds no open connection: never opened, closed, or the session
\* it was given is no longer open
HoldsNoOpenConnection ==
    \/ sql_connection = NoConn
    \/ conn_state[sql_connection] # "open"

\* a step that is a data operation (and not the connection's owner acting)
DataOperationStep == last_op' \in DataOps /\ ~OwnerCloses

\* C16: a data operation attempted on a repository that holds no open connection
\* raises an error, executes no statement and commits nothing, and leaves the
\* repository (connection reference, ownership, path, sessions, stored rows) as it was
C16_NoConnectionFails ==
    [][(HoldsNoOpenConnection /\ DataOperationStep) =>
          /\ last_err' # "none"
          /\ op_executed' = 0
          /\ op_commits' = 0
          /\ op_calls' = <<>>
          /\ UNCHANGED <<sql_file_path, sql_connection, can_close, conn_state, conn_pragma,
                         closed_by_repo, db_rows, db_committed>>]_vars

\* an insert on a repository that was opened and closed again raised on None
C16_Witness ==
    /\ last_op = "insert"
    /\ sql_connection = NoConn
    /\ closed_by_repo # {}
    /\ last_err = "AttributeError"
    /\ op_executed = 0

\* ---------------------------------------------------------------------------
\* One statement and at most one commit per operation

CountOf(calls, name) == Cardinality({i \in DOMAIN calls : calls[i] = name})

\* C20: a data operation that returns has executed exactly one statement; with
\* do_commit it has committed exactly once, after the statement and as its last
\* call on the connection; without do_commit it has not committed
C20_OneStatementOneCommit ==
    (last_op \in DataOps /\ last_err = "none") =>
        /\ op_executed = 1
        /\ CountOf(op_calls, "execute") = 1
        /\ IF op_do_commit
           THEN /\ op_commits = 1
                /\ CountOf(op_calls, "commit") = 1
                /\ op_calls[Len(op_calls)] = "commit"
                /\ \E i \in DOMAIN op_calls : op_calls[i] = "execute" /\ i < Len(op_calls)
           ELSE /\ op_commits = 0
                /\ CountOf(op_calls, "commit") = 0

\* an update without do_commit returned and left its change uncommitted
C20_Witness ==
    /\ last_op = "update"
    /\ last_err = "none"
    /\ ~op_do_commit
    /\ op_executed = 1
    /\ op_commits = 0
    /\ db_rows # db_committed

----------------------------------------------------------------------------
(* A QueueMessage that is given payloads, serialized, and read by a second one *)

InitMsg ==
    /\ attribute_map = AttributeMap(TableName, CompositeKeyMappings)
    /\ entity = NewElement
    /\ entity_in = NewElement
    /\ where_criteria = <<>>
    /\ sql_stmt = SQLStatement
    /\ last_op = "__init__"
    /\ last_err = "none"
    /\ RepoIdle
    /\ payload_in \in PayloadArguments
    /\ payload_arg = NoArgument
    /\ msg_1 = QueueMessage("id1", "dt1", "a_topic")
    /\ msg_2 = QueueMessage("id2", "dt2", NoTopic)
    /\ temp_mqtt = <<>>
    /\ consumer = MQTTConsumer
    /\ topics_arg = NoneList

\* msg_1.msg_payload = payload
SetMsgPayload(payloads) ==
    \E payload \in payloads :
        LET set == msg_payload_setter(msg_1, payload)
        IN  /\ msg_1' = set.msg
            /\ payload_arg' = payload
            /\ last_op' = "msg_payload"
            /\ last_err' = set.err
            /\ UNCHANGED <<payload_in, msg_2, temp_mqtt, consumer, topics_arg>>
            /\ UNCHANGED <<stmt_vars, repo_vars>>

\* temp_mqtt = msg_1.mqtt_message
GetMqttMessage ==
    LET got == json_serialize_payload(msg_1)
    IN  /\ temp_mqtt' = IF got.err = "none" THEN got.text ELSE temp_mqtt
        /\ last_op' = "mqtt_message"
        /\ last_err' = got.err
        /\ UNCHANGED <<payload_in, payload_arg, msg_1, msg_2, consumer, topics_arg>>
        /\ UNCHANGED <<stmt_vars, repo_vars>>

\* msg_2.mqtt_message = {'topic': msg_1.msg_topic, 'payload': temp_mqtt}
SetMqttMessage ==
    /\ temp_mqtt # <<>>
    /\ msg_2' = mqtt_message_setter(msg_2, msg_1._msg_topic, temp_mqtt[1])
    /\ last_op' = "mqtt_message_setter"
    /\ last_err' = "none"
    /\ UNCHANGED <<payload_in, payload_arg, msg_1, temp_mqtt, consumer, topics_arg>>
    /\ UNCHANGED <<stmt_vars, repo_vars>>

NextMsg ==
    \/ SetMsgPayload({payload_in, TMessageOK, TMessageFail, ClassObject})
    \/ GetMqttMessage
    \/ SetMqttMessage

SpecMsg == InitMsg /\ [][NextMsg]_vars

\* msg_2 has just been assigned the MQTT message of msg_1 as msg_1 is now
RoundTripDone ==
    /\ last_op = "mqtt_message_setter"
    /\ json_serialize_payload(msg_1).err = "none"
    /\ temp_mqtt = json_serialize_payload(msg_1).text

\* a dictionary that JSON represents as it is: string keys, and int, str and list values
JsonFaithful(d) ==
    \A i \in DOMAIN d : d[i].key.kind = "str" /\ d[i].val.kind \in {"int", "str", "list"}

\* C17 as stated: after the round trip of any message m1 through mqtt_message,
\* the receiving message's msg_id, msg_timestamp, msg_topic and msg_payload equal m1's
C17_RoundTripAnyPayload ==
    RoundTripDone =>
        /\ msg_2._msg_id = msg_1._msg_id
        /\ msg_2._msg_dt = msg_1._msg_dt
        /\ msg_2._msg_topic = msg_1._msg_topic
        /\ PayloadEq(msg_2._payload, msg_1._payload)

\* C17: after the round trip the receiving message's msg_id, msg_timestamp and
\* msg_topic equal m1's; its msg_payload equals m1's exactly when m1's payload has
\* string keys only and no tuple value (an int key comes back as its decimal
\* string, a tuple as a list)
C17_RoundTrip ==
    RoundTripDone =>
        /\ msg_2._msg_id = msg_1._msg_id
        /\ msg_2._msg_dt = msg_1._msg_dt
        /\ msg_2._msg_topic = msg_1._msg_topic
        /\ PayloadEq(msg_2._payload, msg_1._payload) <=> JsonFaithful(msg_1._payload.pairs)

\* a message with a two-entry payload of string keys arrived complete in msg_2
C17_Witness ==
    /\ RoundTripDone
    /\ Len(msg_1._payload.pairs) = 2
    /\ JsonFaithful(msg_1._payload.pairs)
    /\ msg_2._msg_id = "id1"
    /\ msg_2._msg_topic = "a_topic"
    /\ PayloadEq(msg_2._payload, msg_1._payload)

\* C18: assigning msg_payload a dictionary stores that dictionary, assigning an
\* object implementing IConvertToDict stores its to_dict() result, and assigning a
\* value of any other type raises QueueingException and leaves the payload unchanged
C18_PayloadSetter ==
    [][last_op' = "msg_payload" =>
          IF payload_arg'.kind \in {"dict", "IConvertToDict"}
          THEN /\ last_err' = "none"
               /\ msg_1'._payload = DictPayload(payload_arg'.pairs)
          ELSE /\ last_err' = "QueueingException"
               /\ msg_1'._payload = msg_1._payload]_vars

----------------------------------------------------------------------------
(* An MQTTConsumer whose topics are assigned *)

InitConsumer ==
    /\ attribute_map = AttributeMap(TableName, CompositeKeyMappings)
    /\ entity = NewElement
    /\ entity_in = NewElement
    /\ where_criteria = <<>>
    /\ sql_stmt = SQLStatement
    /\ last_op = "__init__"
    /\ last_err = "none"
    /\ RepoIdle
    /\ QueueIdle

\* consumer.topics = topic_list
SetTopics(topic_lists) ==
    \E topic_list \in topic_lists :
        LET set == topics_setter(consumer, topic_list)
        IN  /\ consumer' = set.consumer
            /\ topics_arg' = topic_list
            /\ last_op' = "topics"
            /\ last_err' = set.err
            /\ UNCHANGED <<payload_in, payload_arg, msg_1, msg_2, temp_mqtt>>
            /\ UNCHANGED <<stmt_vars, repo_vars>>

\* consumer.subscribe_ack(mid, granted_qos), a public method
SubscribeAck ==
    /\ consumer' = subscribe_ack(consumer)
    /\ last_op' = "subscribe_ack"
    /\ last_err' = "none"
    /\ UNCHANGED <<payload_in, payload_arg, msg_1, msg_2, temp_mqtt, topics_arg>>
    /\ UNCHANGED <<stmt_vars, repo_vars>>

NextConsumer ==
    \/ SetTopics(TopicLists)
    \/ SubscribeAck

SpecConsumer == InitConsumer /\ [][NextConsumer]_vars

\* an assignment of a topic list has subscribed the consumer's MQTT client
HasSubscribed == ~consumer._subscribed_topics.is_none

\* C19: once an assignment of a non-None topic list has subscribed the consumer,
\* every later assignment of a non-None list raises RuntimeError and leaves the
\* subscribed topics unchanged; assigning None never changes anything
C19_TopicsSetOnce ==
    [][last_op' = "topics" =>
          IF topics_arg'.is_none
          THEN last_err' = "none" /\ consumer' = consumer
          ELSE HasSubscribed =>
                  /\ last_err' = "RuntimeError"
                  /\ consumer'._subscribed_topics = consumer._subscribed_topics]_vars

----------------------------------------------------------------------------
(* A statement that fails *)

\* the last data operation ended in cursor.execute raising
ExecuteRaised ==
    /\ last_op \in DataOps
    /\ last_err # "none"
    /\ op_calls = <<"cursor", "execute">>

\* C21: when cursor.execute raises, the operation raises that error to its caller,
\* has executed that one statement and nothing after it (no retry), has issued no
\* commit, has rolled nothing back (stored and committed rows are as before), and
\* leaves the entity as it was handed in
C21_FailurePropagates ==
    [][(DataOperationStep /\ ExecuteRaised') =>
          /\ op_executed' = 1
          /\ op_commits' = 0
          /\ op_result' = None
          /\ entity' = entity_in'
          /\ UNCHANGED <<db_rows, db_committed, sql_connection, can_close, conn_state>>]_vars

\* an insert of a key that is stored but not yet committed raised IntegrityError,
\* and the pending row is still there
C21_Witness ==
    /\ last_op = "insert"
    /\ last_err = "IntegrityError"
    /\ ExecuteRaised
    /\ entity = entity_in
    /\ db_rows # db_committed

----------------------------------------------------------------------------
(* open() *)

\* C22: open(path) with a path makes the repository hold a connection that did
\* not exist before and is now open, marks it owned so that close() would close
\* it, and has run the foreign-key pragma on it exactly once; open(None) raises
\* ValueError, creates no connection, and leaves the connection reference and the
\* ownership flag as they were
C22_Open ==
    [][(last_op' = "open" /\ ~OwnerCloses) =>
          IF op_path' # NoPath
          THEN /\ last_err' = "none"
               /\ sql_connection' # NoConn
               /\ conn_state[sql_connection'] = "unused"
               /\ conn_state'[sql_connection'] = "open"
               /\ \A c \in Conns \ {sql_connection'} : conn_state'[c] = conn_state[c]
               /\ conn_pragma'[sql_connection'] = 1
               /\ can_close'
               /\ close_closes'
          ELSE /\ last_err' = "ValueError"
               /\ UNCHANGED <<sql_connection, can_close, conn_state, conn_pragma>>]_vars

\* open(path) on a repository that was constructed with a supplied connection: it
\* now holds a connection of its own, owned and with the pragma issued once
C22_Witness ==
    /\ last_op = "open"
    /\ op_path = DbPath
    /\ last_err = "none"
    /\ sql_connection \notin {NoConn, ExtConn}
    /\ conn_state[ExtConn] = "open"
    /\ can_close
    /\ conn_pragma[sql_connection] = 1

----------------------------------------------------------------------------
(* The builders' frame *)

BuilderOps ==
    {"insert_statement", "update_statement", "delete_statement", "select_by_key_statement",
     "select_all_statement", "select_where_statement"}

\* what one more call of the last builder returns in the current state
AnotherCall ==
    CASE last_op = "insert_statement" -> insert_statement(attribute_map, entity)
      [] last_op = "update_statement" -> update_statement(attribute_map, entity)
      [] last_op = "delete_statement" -> delete_statement(attribute_map, entity)
      [] last_op = "select_by_key_statement" -> select_by_key_statement(attribute_map, entity)
      [] last_op = "select_all_statement" -> select_all_statement(attribute_map)
      [] last_op = "select_where_statement" ->
             select_where_statement(attribute_map, where_criteria).stmt
      [] OTHER -> SQLStatement

----------------------------------------------------------------------------
(* The inclusion rules of a mapping *)

\* C25: for every mapping of the map, whatever its flags: an auto-increment key
\* is in neither the INSERT nor the UPDATE attributes, a key column is never in
\* the UPDATE attributes, and the mapping is in the SELECT attributes exactly
\* when its select_rank is at least 0
C25_InclusionRules ==
    \A m \in Range(attribute_map.mappings) :
        /\ m.db_key = 2 =>
              /\ ~include_in_insert(m)
              /\ ~include_in_update(m)
              /\ m \notin Range(attributes_for_insert(attribute_map))
              /\ m \notin Range(attributes_for_update(attribute_map))
        /\ m.db_key # 0 =>
              /\ ~include_in_update(m)
              /\ m \notin Range(attributes_for_update(attribute_map))
        /\ include_in_select(m) <=> m.select_rank >= 0
        /\ m \in Range(attributes_for_select(attribute_map)) <=> m.select_rank >= 0

\* a map with an auto-increment key whose two flags are set, a key column flagged
\* for UPDATE, an unselected mapping and a mapping of rank 0, after a builder ran
C25_Witness ==
    /\ last_op = "update_statement"
    /\ \E m \in Range(attribute_map.mappings) : m.db_key = 2 /\ m.inc_insert /\ m.inc_update
    /\ \E m \in Range(attribute_map.mappings) : m.db_key = 1 /\ m.inc_update
    /\ \E m \in Range(attribute_map.mappings) : m.select_rank = -1
    /\ \E m \in Range(attribute_map.mappings) : m.select_rank = 0

----------------------------------------------------------------------------
(* load_row on the rows of the built SELECT, for every assignment of ranks *)

\* the ranks a mapping is declared with here: unselected, and 0 up to one past the
\* last position of a three-column SELECT list of consecutive ranks
LoadRanks == -1..(MaxRank + 1)

\* key a, values b and c, each with any rank: consecutive, sparse, duplicate, negative
LoadMappings ==
    {<<AttributeMapping(ra, Attrs[1], Columns[1], 1, TRUE, TRUE),
       AttributeMapping(rb, Attrs[2], Columns[2], 0, TRUE, TRUE),
       AttributeMapping(rc, Attrs[3], Columns[3], 0, TRUE, TRUE)>> :
        ra \in LoadRanks, rb \in LoadRanks, rc \in LoadRanks}

\* the row the table holds: three distinct integers
LoadRows ==
    {[c \in ColumnSet |-> IF c = "col_a" THEN v
                          ELSE IF c = "col_b" THEN v + MaxVal ELSE v + 2 * MaxVal] :
        v \in Values}

\* SQLiteRepository(contents_type, sql_connection = an open connection to a database
\* whose table holds one committed row)
InitLoad ==
    /\ \E ms \in LoadMappings : attribute_map = AttributeMap(TableName, ms)
    /\ entity = NewElement
    /\ entity_in = NewElement
    /\ where_criteria = <<>>
    /\ sql_stmt = SQLStatement
    /\ last_op = "__init__"
    /\ last_err = "none"
    /\ sql_file_path = NoPath
    /\ sql_connection = ExtConn
    /\ can_close = FALSE
    /\ conn_state = [c \in Conns |-> IF c = ExtConn THEN "open" ELSE "unused"]
    /\ conn_pragma = [c \in Conns |-> 0]
    /\ closed_by_repo = {}
    /\ op_closed = NoConn
    /\ op_executed = 0
    /\ op_commits = 0
    /\ op_cursors_open = 0
    /\ \E r \in LoadRows : db_rows = {r} /\ db_committed = {r}
    /\ with_pc = "out"
    /\ with_conn = NoConn
    /\ with_outcome = "none"
    /\ op_result = None
    /\ close_again = FALSE
    /\ op_do_commit = TRUE
    /\ op_calls = <<>>
    /\ op_path = NoPath
    /\ QueueIdle

NextLoad ==
    \/ SelectAll({TRUE})
    \/ SelectByKey(DataElements, {TRUE})

SpecLoad == InitLoad /\ [][NextLoad]_vars

\* the columns of the SELECT list of the statement last executed, in their order
SelectList ==
    ColumnsIn(SubSeq(sql_stmt.stmt_text, 1, PositionOf(sql_stmt.stmt_text, " FROM ") - 1))

\* the row the cursor returned for the stored row: one value per column of the list
FetchedRow == ResultRow(CHOOSE r \in db_rows : TRUE, SelectList)

\* select_all fetched the stored row and load_row returned for it
RowLoaded ==
    /\ last_op = "select_all"
    /\ last_err = "none"
    /\ op_result # None
    /\ Len(op_result.items) = 1

\* C24: load_row assigns to the attribute of every mapping of the full list, the
\* mappings left out of the SELECT list included, the value the row holds at index
\* select_rank (an index below 0 counts from the end of the row), whatever the
\* mapping's position in the list; a value of the attribute's type is assigned as
\* it is
C24_LoadByRank ==
    RowLoaded =>
        \A m \in Range(attribute_map.mappings) :
            LET at == IF m.select_rank >= 0 THEN m.select_rank + 1
                      ELSE Len(FetchedRow) + m.select_rank + 1
            IN /\ at \in 1..Len(FetchedRow)
               /\ op_result.items[1][m.class_attr_name] = Scalar(FetchedRow[at])

\* a row of two columns was loaded by a list of three mappings: the first mapping
\* of the list is not selected and reads the last value of the row, which is not
\* the value at its own position
C24_Witness ==
    /\ RowLoaded
    /\ Len(FetchedRow) = 2
    /\ attribute_map.mappings[1].select_rank = -1
    /\ op_result.items[1][attribute_map.mappings[1].class_attr_name] = Scalar(FetchedRow[2])
    /\ FetchedRow[2] # FetchedRow[1]

\* select_all ran its statement on the stored row and the session did not fail
SelectAllRan ==
    /\ last_op = "select_all"
    /\ last_err # "OperationalError"

\* C27: for every map, sparse, duplicate or negative ranks included, the 0-based
\* position of a mapping's column in the SELECT list is the row index load_row
\* reads for the mapping, so the fetched row is loaded and every attribute holds
\* the value of its own column
C27_OwnColumn ==
    SelectAllRan =>
        /\ last_err = "none"
        /\ \A m \in Range(attribute_map.mappings) :
              /\ m.db_attr_name \in Range(SelectList)
              /\ PositionOf(SelectList, m.db_attr_name) - 1 = m.select_rank
              /\ \A r \in db_rows :
                    op_result.items[1][m.class_attr_name] = Scalar(r[m.db_attr_name])

----------------------------------------------------------------------------
(* Placeholders and parameters *)

----------------------------------------------------------------------------
(* The connections open() created *)

\* the connections sqlite3.connect returned to open()
CreatedByOpen == {c \in Conns \ {ExtConn} : conn_state[c] # "unused"}

\* C28: once close() has returned, whatever open() calls came before it, no
\* connection that open() created is still open
C28_OwnConnectionsClosed ==
    last_op = "close" => \A c \in CreatedByOpen : conn_state[c] # "open"

----------------------------------------------------------------------------
(* Pending changes *)

WriteOps == {"insert", "update", "delete"}

\* what a data operation does to the rows of the session and to the committed
\* rows: only a write that succeeds changes the rows, nothing is committed without
\* do_commit, and a successful operation with do_commit commits all the session holds
DataOperationCommits ==
    /\ (last_op' \notin WriteOps \/ last_err' # "none") => db_rows' = db_rows
    /\ ~op_do_commit' => db_committed' = db_committed
    /\ (op_do_commit' /\ last_err' = "none") => (op_commits' = 1 /\ db_committed' = db_rows')

----------------------------------------------------------------------------
(* Cursors *)

\* C30: when a data operation is over, on success and after an exception of the
\* statement, the cursor it opened is closed
C30_CursorsClosed == last_op \in DataOps => op_cursors_open = 0

====
